---- MODULE Spec2Model ----
(***************************************************************************)
(* A model of the DASH pipeline of get.ts: the byte-range fetcher, the     *)
(* segment assembler (downloadDashRepresentation), the remuxer            *)
(* (mergeDashVideoAudio) and the media-item resolver                       *)
(* (extractMediaRecursive).                                                *)
(*                                                                         *)
(* Strings are sequences of one-character strings, so that textual         *)
(* equality and parsing are distinct from numeric equality.                *)
(***************************************************************************)
EXTENDS Integers, Sequences, FiniteSets, TLC

VARIABLES
    \* ---- segment assembly (downloadDashRepresentation) ----
    repr,        \* the representation being assembled
    asmPc,       \* position of downloadDashRepresentation
    requests,    \* range requests issued so far, in order: <<start, end>>
    reqStrs,     \* the prefetch range strings fetched so far, in order
    chunks,      \* lengths of the chunks pushed so far
    segRanges,   \* the collected prefetch range strings (get.ts:432)
    segIdx,      \* index of the for-of loop over segRanges
    asmResult,   \* length of the returned buffer, or NoBuffer
    asmError,    \* the error thrown to the caller, or "none"
    serverExact, \* every response so far carried exactly the requested bytes
    failedAt,    \* index in requests of the request that failed, 0 if none
    inflight,    \* range requests issued and not yet answered
    \* ---- downloadBestQualityDash from line 499 on, and mergeDashVideoAudio ----
    dashPc,      \* position of downloadBestQualityDash
    bestVideo,   \* the representation picked for the video track
    bestAudio,   \* the representation picked for the audio track
    videoBuf,    \* the assembled video buffer, or NoBuffer
    audioBuf,    \* the assembled audio buffer, or NoBuffer
    files,       \* the files that exist on disk
    muxCalls,    \* number of times the multiplexer (ffmpeg) was invoked
    muxExit,     \* how the last multiplexer run exited: "none", "zero", "nonzero"
    muxOutcome,  \* how mergeDashVideoAudio ended: "none", "returned", "threw"
    dashOutcome, \* how downloadBestQualityDash ended: "none", "saved", "threw"
    \* ---- resolver (extractMediaRecursive) ----
    tree,        \* the item resolve was called on
    stack,       \* call stack of extractMediaRecursive frames
    visited,     \* the calls made so far, in order: position in the tree, name
    produced,    \* the output files actually written
    counted,     \* the output files downloadCount++ was executed for
    returned,    \* the calls that have returned: position in the tree, count
    failed,      \* TRUE once a download step of some leaf has failed
    resolveRet,  \* value returned by the outermost call, or NoCount
    resolveErr,  \* TRUE when the outermost call has thrown
    \* ---- single functions and operations, each under its own specification ----
    parse,       \* parseByteRange: the string given and the result
    sel,         \* find{Video,Audio}AdaptationSet: the sets given and the results
    pick,        \* the bandwidth sort of lines 487-494: the list and the pick
    img,         \* downloadHighestResImage: the display resources and the pick
    dr,          \* downloadRange: the calls made, the requests sent, the results
    mux2,        \* two remux operations running side by side in one directory
    \* ---- the units outside the DASH core, each under its own specification ----
    cfg,         \* ConfigLoader: the sources and the configurations built
    ig,          \* handleInstagram: position, downloader, calls made
    idl,         \* InstagramDownloader.downloadFromUrl: the post and the downloads
    coll,        \* BaseDownloader.downloadCollection: batches and filenames
    http,        \* HttpClient.request: attempts, waits, timer and outcome
    leg,         \* handleInstagramLegacy: captured items and the names given
    stor         \* LocalFileStorage: the path given and what resolvePath did

vars == << repr, asmPc, requests, reqStrs, chunks, segRanges, segIdx, asmResult,
           asmError, serverExact, failedAt, inflight, dashPc, bestVideo, bestAudio, videoBuf,
           audioBuf, files, muxCalls, muxExit, muxOutcome, dashOutcome,
           tree, stack, visited, produced, counted, returned, failed,
           resolveRet, resolveErr, parse, sel, pick, img, dr, mux2,
           cfg, ig, idl, coll, http, leg, stor >>

asmVars == << repr, asmPc, requests, reqStrs, chunks, segRanges, segIdx,
              asmResult, asmError, serverExact, failedAt, inflight >>
dashVars == << dashPc, bestVideo, bestAudio, videoBuf, audioBuf, files,
               muxCalls, muxExit, muxOutcome, dashOutcome >>
resVars == << tree, stack, visited, produced, counted, returned, failed,
             resolveRet, resolveErr >>
auxVars == << parse, sel, pick, img, dr, mux2 >>
aux2Vars == << cfg, ig, idl, coll, http, leg, stor >>

(***************************************************************************)
(* Strings                                                                 *)
(***************************************************************************)
Digits == {"0", "1", "2", "3", "4", "5", "6", "7", "8", "9"}

\* a missing attribute (JavaScript undefined); not a string of characters
Undefined == << "undefined" >>

\* JavaScript truthiness of an optional string: undefined and "" are falsy
Truthy(s) == s # Undefined /\ s # << >>

DigitVal(c) ==
    CASE c = "0" -> 0 [] c = "1" -> 1 [] c = "2" -> 2 [] c = "3" -> 3
      [] c = "4" -> 4 [] c = "5" -> 5 [] c = "6" -> 6 [] c = "7" -> 7
      [] c = "8" -> 8 [] c = "9" -> 9

AllDigits(s) == \A i \in 1..Len(s) : s[i] \in Digits

RECURSIVE DecValue(_)
\* value of a non-empty string of decimal digits
DecValue(s) ==
    IF Len(s) = 0 THEN 0
    ELSE 10 * DecValue(SubSeq(s, 1, Len(s) - 1)) + DigitVal(s[Len(s)])

\* the longest prefix of s made of digits
DigitPrefixLen(s) ==
    CHOOSE n \in 0..Len(s) :
        /\ \A i \in 1..n : s[i] \in Digits
        /\ (n < Len(s) => s[n + 1] \notin Digits)

\* parseInt(str, 10): << n >> for a number, << >> for NaN
parseInt(s) ==
    LET neg  == Len(s) > 0 /\ s[1] = "-"
        body == IF neg THEN SubSeq(s, 2, Len(s)) ELSE s
        n    == DigitPrefixLen(body)
    IN  IF n = 0 THEN << >>
        ELSE << (IF neg THEN -1 ELSE 1) * DecValue(SubSeq(body, 1, n)) >>

\* the result of parseByteRange for a string that does not match
NullRange == << >>

\* str.match(/^(\d+)-(\d+)$/) and the two parseInt calls
parseByteRange(str) ==
    LET dashes == { i \in 1..Len(str) :
                      /\ str[i] = "-"
                      /\ i > 1 /\ i < Len(str)
                      /\ AllDigits(SubSeq(str, 1, i - 1))
                      /\ AllDigits(SubSeq(str, i + 1, Len(str))) }
    IN  IF dashes = {} THEN NullRange
        ELSE LET i == CHOOSE d \in dashes : TRUE
             IN  << DecValue(SubSeq(str, 1, i - 1)),
                    DecValue(SubSeq(str, i + 1, Len(str))) >>

(***************************************************************************)
(* Inputs of the segment assembler                                         *)
(***************************************************************************)
\* values of the FBContentLength attribute: absent, "0", "500", "1000", "1500"
LengthStrs ==
    { Undefined, << "0" >>, << "5", "0", "0" >>, << "1", "0", "0", "0" >>,
      << "1", "5", "0", "0" >> }

\* values of the Initialization range attribute: "0-999", "50-99", "0-", ""
InitRangeStrs ==
    { << "0", "-", "9", "9", "9" >>, << "5", "0", "-", "9", "9" >>,
      << "0", "-" >>, << >> }

\* values of a prefetch range attribute: absent, "100-199", "200-299",
\* "0100-199" (numerically "100-199", textually different), "1x" (malformed)
SegRangeStrs ==
    { Undefined, << "1", "0", "0", "-", "1", "9", "9" >>,
      << "2", "0", "0", "-", "2", "9", "9" >>,
      << "0", "1", "0", "0", "-", "1", "9", "9" >>, << "1", "x" >> }

Representations ==
    [ FBContentLength : LengthStrs, initRangeStr : InitRangeStrs,
      FBFirstSegmentRange : SegRangeStrs, FBSecondSegmentRange : SegRangeStrs,
      FBPrefetchSegmentRange : SegRangeStrs ]

\* no buffer was returned
NoBuffer == << >>

RECURSIVE SumSeq(_)
SumSeq(s) == IF Len(s) = 0 THEN 0 ELSE s[1] + SumSeq(Tail(s))

\* Buffer.concat(chunks): the length of the concatenation
ConcatLen(cs) == SumSeq(cs)

InSeq(x, s) == \E i \in 1..Len(s) : s[i] = x

(***************************************************************************)
(* downloadRange: one request, one response                                *)
(***************************************************************************)
\* number of bytes the inclusive range start..end denotes
ByteCount(range) ==
    IF range[2] >= range[1] THEN range[2] - range[1] + 1 ELSE 0

\* body lengths a server may answer a range request with: exactly the
\* requested bytes, or a body cut short
BodyLengths(range) == { ByteCount(range), ByteCount(range) \div 2 }

\* ways a request fails: nodeFetch rejects, or res.ok is false
FetchFailures == { "transport", "http" }

\* the error downloadRange throws: new Error(`HTTP ${res.status} for ${url}`)
\* or the rejection of nodeFetch; none of them is a parse error
downloadRangeError(failure) ==
    IF failure = "http" THEN "NetworkError:http" ELSE "NetworkError:transport"

(***************************************************************************)
(* downloadDashRepresentation                                              *)
(***************************************************************************)
\* const totalLen = parseInt(repr.$.FBContentLength || '0', 10)
TotalLen(r) ==
    parseInt(IF Truthy(r.FBContentLength) THEN r.FBContentLength ELSE << "0" >>)

\* totalLen > 0 (false for NaN)
TotalLenPositive(r) == TotalLen(r) # << >> /\ TotalLen(r)[1] > 0

\* const initRange = parseByteRange(initRangeStr) || [0, 0]
InitRange(r) ==
    IF parseByteRange(r.initRangeStr) # NullRange
    THEN parseByteRange(r.initRangeStr) ELSE << 0, 0 >>

\* a plausible slip: the end byte taken as totalLen instead of totalLen - 1
MainRange_EndOffByOne(r) == << InitRange(r)[2] + 1, TotalLen(r)[1] >>

\* the range fetched after the initialization range when a length is declared
MainRange(r) == << InitRange(r)[2] + 1, TotalLen(r)[1] - 1 >>

\* a plausible slip: the prefetch string pushed without the includes() test
CollectSegRanges_NoDedup(r) ==
    LET srA == r.FBFirstSegmentRange
        srB == r.FBSecondSegmentRange
        srP == r.FBPrefetchSegmentRange
        s1  == IF Truthy(srA) THEN << srA >> ELSE << >>
        s2  == IF Truthy(srB) THEN Append(s1, srB) ELSE s1
    IN  IF Truthy(srP) THEN Append(s2, srP) ELSE s2

\* lines 429-435: the prefetch range strings collected for fetching
CollectSegRanges(r) ==
    LET srA == r.FBFirstSegmentRange
        srB == r.FBSecondSegmentRange
        srP == r.FBPrefetchSegmentRange
        s1  == IF Truthy(srA) THEN << srA >> ELSE << >>
        s2  == IF Truthy(srB) THEN Append(s1, srB) ELSE s1
    IN  IF Truthy(srP) /\ ~InSeq(srP, s2) THEN Append(s2, srP) ELSE s2

\* the for-of loop with its `if (!range) continue`: the first index at or
\* after `from` whose string parses, 0 when the loop runs off the end
NextSegIdx(sr, from) ==
    LET ok == { j \in from..Len(sr) : parseByteRange(sr[j]) # NullRange }
    IN  IF ok = {} THEN 0 ELSE CHOOSE j \in ok : \A k \in ok : j <= k

AsmAwaiting == asmPc \in { "awaitInit", "awaitMain", "awaitSeg" }
AsmTerminal == asmPc \in { "returned", "thrown" }

\* the loop over segRanges, entered or resumed at index `from` with chunks cs
AsmLoopFrom(sr, from, cs) ==
    LET j == NextSegIdx(sr, from)
    IN  IF j = 0
        THEN /\ asmResult' = << ConcatLen(cs) >>
             /\ asmPc' = "returned"
             /\ UNCHANGED << requests, reqStrs, segIdx >>
        ELSE /\ requests' = Append(requests, parseByteRange(sr[j]))
             /\ reqStrs' = Append(reqStrs, sr[j])
             /\ segIdx' = j
             /\ asmPc' = "awaitSeg"
             /\ UNCHANGED asmResult

\* lines 409-419, up to the first await
AsmBegin ==
    /\ asmPc = "idle"
    /\ requests' = << InitRange(repr) >>
    /\ asmPc' = "awaitInit"
    /\ inflight' = inflight + 1
    /\ UNCHANGED << repr, reqStrs, chunks, segRanges, segIdx, asmResult,
                    asmError, serverExact, failedAt >>
    /\ UNCHANGED << dashVars, resVars, auxVars, aux2Vars >>

\* lines 419-435: the initialization chunk arrives
AsmInitFetched ==
    /\ asmPc = "awaitInit"
    /\ \E n \in BodyLengths(requests[Len(requests)]) :
        /\ chunks' = << n >>
        /\ serverExact' = (serverExact /\ n = ByteCount(requests[Len(requests)]))
        /\ IF TotalLenPositive(repr)
           THEN /\ requests' = Append(requests, MainRange(repr))
                /\ asmPc' = "awaitMain"
                /\ UNCHANGED << reqStrs, segRanges, segIdx, asmResult >>
           ELSE /\ segRanges' = CollectSegRanges(repr)
                /\ AsmLoopFrom(CollectSegRanges(repr), 1, << n >>)
    /\ inflight' = inflight - 1 + (Len(requests') - Len(requests))
    /\ UNCHANGED << repr, asmError, failedAt >>
    /\ UNCHANGED << dashVars, resVars, auxVars, aux2Vars >>

\* lines 426-427 and 446-448: the main chunk arrives
AsmMainFetched ==
    /\ asmPc = "awaitMain"
    /\ \E n \in BodyLengths(requests[Len(requests)]) :
        /\ chunks' = Append(chunks, n)
        /\ serverExact' = (serverExact /\ n = ByteCount(requests[Len(requests)]))
        /\ asmResult' = << ConcatLen(Append(chunks, n)) >>
    /\ asmPc' = "returned"
    /\ inflight' = inflight - 1
    /\ UNCHANGED << repr, requests, reqStrs, segRanges, segIdx, asmError,
                    failedAt >>
    /\ UNCHANGED << dashVars, resVars, auxVars, aux2Vars >>

\* lines 441-443: a prefetch chunk arrives and the loop goes on
AsmSegFetched ==
    /\ asmPc = "awaitSeg"
    /\ \E n \in BodyLengths(requests[Len(requests)]) :
        /\ chunks' = Append(chunks, n)
        /\ serverExact' = (serverExact /\ n = ByteCount(requests[Len(requests)]))
        /\ AsmLoopFrom(segRanges, segIdx + 1, Append(chunks, n))
    /\ inflight' = inflight - 1 + (Len(requests') - Len(requests))
    /\ UNCHANGED << repr, segRanges, asmError, failedAt >>
    /\ UNCHANGED << dashVars, resVars, auxVars, aux2Vars >>

\* a plausible slip: the failure is caught and the chunks fetched so far are
\* returned
AsmFetchFailed_Swallowed ==
    /\ AsmAwaiting
    /\ failedAt' = Len(requests)
    /\ inflight' = inflight - 1
    /\ asmResult' = << ConcatLen(chunks) >>
    /\ asmPc' = "returned"
    /\ UNCHANGED << repr, requests, reqStrs, chunks, segRanges, segIdx,
                    asmError, serverExact >>
    /\ UNCHANGED << dashVars, resVars, auxVars, aux2Vars >>

\* line 393/395: the awaited downloadRange throws; nothing catches it
AsmFetchFailed ==
    /\ AsmAwaiting
    /\ \E f \in FetchFailures : asmError' = downloadRangeError(f)
    /\ failedAt' = Len(requests)
    /\ inflight' = inflight - 1
    /\ asmPc' = "thrown"
    /\ UNCHANGED << repr, requests, reqStrs, chunks, segRanges, segIdx,
                    asmResult, serverExact >>
    /\ UNCHANGED << dashVars, resVars, auxVars, aux2Vars >>

(***************************************************************************)
(* The segment assembler on its own: one call of                           *)
(* downloadDashRepresentation on any representation                        *)
(***************************************************************************)
AsmIdle ==
    /\ asmPc = "idle"
    /\ requests = << >>
    /\ reqStrs = << >>
    /\ chunks = << >>
    /\ segRanges = << >>
    /\ segIdx = 0
    /\ asmResult = NoBuffer
    /\ asmError = "none"
    /\ serverExact = TRUE
    /\ failedAt = 0
    /\ inflight = 0

DashUnused ==
    /\ dashPc = "unused"
    /\ bestVideo = << >>
    /\ bestAudio = << >>
    /\ videoBuf = NoBuffer
    /\ audioBuf = NoBuffer
    /\ files = {}
    /\ muxCalls = 0
    /\ muxExit = "none"
    /\ muxOutcome = "none"
    /\ dashOutcome = "none"

ResUnused ==
    /\ tree = << >>
    /\ stack = << >>
    /\ visited = << >>
    /\ produced = {}
    /\ counted = {}
    /\ returned = {}
    /\ failed = FALSE
    /\ resolveRet = << >>
    /\ resolveErr = FALSE

\* the variables of the single-function specifications, when not in use
AuxUnused ==
    /\ parse = << >>
    /\ sel = << >>
    /\ pick = << >>
    /\ img = << >>
    /\ dr = << >>
    /\ mux2 = << >>

\* the variables of the units outside the DASH core, when not in use
Aux2Unused ==
    /\ cfg = << >>
    /\ ig = << >>
    /\ idl = << >>
    /\ coll = << >>
    /\ http = << >>
    /\ leg = << >>
    /\ stor = << >>

InitAsm ==
    /\ repr \in Representations
    /\ AsmIdle
    /\ DashUnused
    /\ ResUnused
    /\ AuxUnused
    /\ Aux2Unused

NextAsm ==
    \/ AsmBegin
    \/ AsmInitFetched
    \/ AsmMainFetched
    \/ AsmSegFetched
    \/ AsmFetchFailed

SpecAsm == InitAsm /\ [][NextAsm]_vars

(***************************************************************************)
(* Properties of the segment assembler                                     *)
(***************************************************************************)
NetworkErrors == { "NetworkError:http", "NetworkError:transport" }

\* C1: once a range request of the assembly has failed, the failed request is
\* the last one issued, no buffer is returned and the caller gets the error;
\* a buffer is returned only when every request issued has delivered its chunk.
C1_FetchFailureAborts ==
    /\ failedAt # 0 =>
          /\ asmPc = "thrown"
          /\ asmResult = NoBuffer
          /\ asmError \in NetworkErrors
          /\ Len(requests) = failedAt
    /\ asmResult # NoBuffer =>
          /\ asmPc = "returned"
          /\ failedAt = 0
          /\ Len(chunks) = Len(requests)
          /\ asmResult = << ConcatLen(chunks) >>

\* a request fails after the initialization chunk has already been fetched
C1_Witness ==
    /\ asmPc = "thrown"
    /\ failedAt = 2
    /\ Len(chunks) = 1

\* the prefetch range strings the representation declares
DeclaredSegStrs(r) ==
    { s \in { r.FBFirstSegmentRange, r.FBSecondSegmentRange,
              r.FBPrefetchSegmentRange } : Truthy(s) }

\* the assembly has to use a byte-range string that is malformed
MalformedRangeUsed(r) ==
    \/ parseByteRange(r.initRangeStr) = NullRange
    \/ /\ ~TotalLenPositive(r)
       /\ \E s \in DeclaredSegStrs(r) : parseByteRange(s) = NullRange

\* C2: an assembly that has to use a malformed byte-range string ends with a
\* parse error and returns no buffer.
C2_MalformedRangeFails ==
    (AsmTerminal /\ MalformedRangeUsed(repr)) =>
        /\ asmError = "ParseError"
        /\ asmResult = NoBuffer

\* C3 as stated: with a positive declared length L and initialization range
\* [s,e], a completed assembly has issued exactly [s,e] then [e+1,L-1], and
\* with [0,999] and an exact server the buffer has length L.
C3_TwoRangesLengthL ==
    LET ir == parseByteRange(repr.initRangeStr)
        L  == TotalLen(repr)[1]
    IN  (asmPc = "returned" /\ TotalLenPositive(repr) /\ ir # NullRange) =>
            /\ requests = << ir, << ir[2] + 1, L - 1 >> >>
            /\ (ir = << 0, 999 >> /\ serverExact) => asmResult = << L >>

\* C3 amended: the same, the length being L when L is at least 1000, that is
\* when the declared length covers the initialization range.
C3_TwoRangesLengthL_Amended ==
    LET ir == parseByteRange(repr.initRangeStr)
        L  == TotalLen(repr)[1]
    IN  (asmPc = "returned" /\ TotalLenPositive(repr) /\ ir # NullRange) =>
            /\ requests = << ir, << ir[2] + 1, L - 1 >> >>
            /\ (ir = << 0, 999 >> /\ serverExact /\ L >= 1000) =>
                   asmResult = << L >>

\* [0,999] and L = 1500 assembled from an exact server
C3_Witness ==
    /\ asmPc = "returned"
    /\ parseByteRange(repr.initRangeStr) = << 0, 999 >>
    /\ TotalLen(repr) = << 1500 >>
    /\ serverExact
    /\ requests = << << 0, 999 >>, << 1000, 1499 >> >>
    /\ asmResult = << 1500 >>

AllThreeDeclared(r) ==
    /\ Truthy(r.FBFirstSegmentRange)
    /\ Truthy(r.FBSecondSegmentRange)
    /\ Truthy(r.FBPrefetchSegmentRange)

NoDuplicates(s) == \A i, j \in 1..Len(s) : s[i] = s[j] => i = j

\* C4 as stated: no declared length, three declared prefetch strings, any two
\* of them textually identical: at most two ranges are fetched after the
\* initialization range and no string is fetched twice.
C4_DedupAnyTwo ==
    LET a == repr.FBFirstSegmentRange
        b == repr.FBSecondSegmentRange
        c == repr.FBPrefetchSegmentRange
    IN  (/\ ~TotalLenPositive(repr)
         /\ AllThreeDeclared(repr)
         /\ (a = b \/ a = c \/ b = c)) =>
            /\ Len(requests) <= 3
            /\ NoDuplicates(reqStrs)

\* C4 amended: when the prefetch string is textually identical to the first-
\* or second-segment string, at most two ranges are fetched after the
\* initialization range; if the first- and second-segment strings differ as
\* well, no string is fetched twice.
C4_DedupPrefetch ==
    LET a == repr.FBFirstSegmentRange
        b == repr.FBSecondSegmentRange
        c == repr.FBPrefetchSegmentRange
    IN  (/\ ~TotalLenPositive(repr)
         /\ AllThreeDeclared(repr)
         /\ (c = a \/ c = b)) =>
            /\ Len(requests) <= 3
            /\ Len(reqStrs) <= 2
            /\ (a # b => NoDuplicates(reqStrs))

\* prefetch string equal to the first-segment string: two fetches after init
C4_Witness ==
    /\ asmPc = "returned"
    /\ ~TotalLenPositive(repr)
    /\ AllThreeDeclared(repr)
    /\ repr.FBPrefetchSegmentRange = repr.FBFirstSegmentRange
    /\ repr.FBFirstSegmentRange # repr.FBSecondSegmentRange
    /\ Len(reqStrs) = 2
    /\ Len(requests) = 3

(***************************************************************************)
(* mergeDashVideoAudio                                                     *)
(***************************************************************************)
TempVideo == "temp_video.mp4"
TempAudio == "temp_audio.mp4"

\* how a writeFileSync call may end: done, failed before the file was
\* created, failed after it was created
WriteOutcomes == { "ok", "failedOpen", "failedWrite" }

\* how the ffmpeg process may exit
ExitCodes == { "zero", "nonzero" }

\* fs.writeFileSync(name, buf)
writeFileSync(fs, name, how) ==
    IF how = "failedOpen" THEN fs ELSE fs \cup { name }

\* try { fs.unlinkSync(name) } catch { }
unlinkQuietly(fs, name) == fs \ { name }

\* lines 451-464, run to completion: the function has no await.  w1 and w2
\* are the outcomes of the two writeFileSync calls, exit that of ffmpeg.
mergeDashVideoAudio(fs, outPath, w1, w2, exit) ==
    LET fs1 == writeFileSync(fs, TempVideo, w1)
        fs2 == writeFileSync(fs1, TempAudio, w2)
    IN  IF w1 # "ok"
        THEN \* line 452 throws, outside the try
             [ files |-> fs1, outcome |-> "threw", calls |-> 0,
               exit |-> "none" ]
        ELSE IF w2 # "ok"
        THEN \* line 453 throws, outside the try
             [ files |-> fs2, outcome |-> "threw", calls |-> 0,
               exit |-> "none" ]
        ELSE \* try: execSync; catch: logDebug only; finally: both unlinks
             LET fs3 == IF exit = "zero" THEN fs2 \cup { outPath } ELSE fs2
                 fs4 == unlinkQuietly(unlinkQuietly(fs3, TempVideo), TempAudio)
             IN  [ files |-> fs4, outcome |-> "returned", calls |-> 1,
                   exit |-> exit ]

(***************************************************************************)
(* downloadBestQualityDash, lines 499-505                                  *)
(***************************************************************************)
FinalPath == "final.mp4"

\* the representations the pipeline is run on
DashReprs ==
    { r \in Representations :
        \/ /\ r.FBContentLength = << "1", "5", "0", "0" >>
           /\ r.initRangeStr = << "0", "-", "9", "9", "9" >>
           /\ DeclaredSegStrs(r) = {}
        \/ /\ r.FBContentLength = Undefined
           /\ r.initRangeStr = << "5", "0", "-", "9", "9" >>
           /\ r.FBFirstSegmentRange = << "1", "0", "0", "-", "1", "9", "9" >>
           /\ r.FBSecondSegmentRange = << "2", "0", "0", "-", "2", "9", "9" >>
           /\ r.FBPrefetchSegmentRange = r.FBFirstSegmentRange
        \/ /\ r.FBContentLength = << "0" >>
           /\ r.initRangeStr = << "0", "-" >>
           /\ r.FBFirstSegmentRange = << "1", "x" >>
           /\ r.FBSecondSegmentRange = Undefined
           /\ r.FBPrefetchSegmentRange = Undefined }

\* a fresh call of downloadDashRepresentation on r
AsmCall(r) ==
    /\ repr' = r
    /\ asmPc' = "idle"
    /\ requests' = << >>
    /\ reqStrs' = << >>
    /\ chunks' = << >>
    /\ segRanges' = << >>
    /\ segIdx' = 0
    /\ asmResult' = NoBuffer
    /\ asmError' = "none"
    /\ serverExact' = TRUE
    /\ failedAt' = 0
    /\ inflight' = inflight

\* a plausible slip: the merge is entered as soon as the video is assembled
DashVideoAssembled_NoJoin ==
    /\ dashPc = "fetchVideo"
    /\ asmPc = "returned"
    /\ videoBuf' = asmResult
    /\ dashPc' = "merge"
    /\ UNCHANGED << asmVars, bestVideo, bestAudio, audioBuf, files, muxCalls,
                    muxExit, muxOutcome, dashOutcome, resVars, auxVars, aux2Vars >>

\* line 499 returns, line 500 is called
DashVideoAssembled ==
    /\ dashPc = "fetchVideo"
    /\ asmPc = "returned"
    /\ videoBuf' = asmResult
    /\ AsmCall(bestAudio)
    /\ dashPc' = "fetchAudio"
    /\ UNCHANGED << bestVideo, bestAudio, audioBuf, files, muxCalls, muxExit,
                    muxOutcome, dashOutcome, resVars, auxVars, aux2Vars >>

\* line 500 returns
DashAudioAssembled ==
    /\ dashPc = "fetchAudio"
    /\ asmPc = "returned"
    /\ audioBuf' = asmResult
    /\ dashPc' = "merge"
    /\ UNCHANGED << asmVars, bestVideo, bestAudio, videoBuf, files, muxCalls,
                    muxExit, muxOutcome, dashOutcome, resVars, auxVars, aux2Vars >>

\* line 499 or 500 throws: downloadBestQualityDash rejects
DashAssemblyThrew ==
    /\ dashPc \in { "fetchVideo", "fetchAudio" }
    /\ asmPc = "thrown"
    /\ dashPc' = "done"
    /\ dashOutcome' = "threw"
    /\ UNCHANGED << asmVars, bestVideo, bestAudio, videoBuf, audioBuf, files,
                    muxCalls, muxExit, muxOutcome, resVars, auxVars, aux2Vars >>

\* lines 502-504: the merge and what the caller sees of it
DashMerge ==
    /\ dashPc = "merge"
    /\ \E w1 \in WriteOutcomes, w2 \in WriteOutcomes, exit \in ExitCodes :
         LET m == mergeDashVideoAudio(files, FinalPath, w1, w2, exit)
         IN  /\ files' = m.files
             /\ muxCalls' = muxCalls + m.calls
             /\ muxExit' = m.exit
             /\ muxOutcome' = m.outcome
             /\ dashOutcome' = IF m.outcome = "returned" THEN "saved"
                               ELSE "threw"
    /\ dashPc' = "done"
    /\ UNCHANGED << asmVars, bestVideo, bestAudio, videoBuf, audioBuf, resVars, auxVars, aux2Vars >>

InitDash ==
    /\ bestVideo \in DashReprs
    /\ bestAudio \in DashReprs
    /\ repr = bestVideo
    /\ AsmIdle
    /\ dashPc = "fetchVideo"
    /\ videoBuf = NoBuffer
    /\ audioBuf = NoBuffer
    /\ files = {}
    /\ muxCalls = 0
    /\ muxExit = "none"
    /\ muxOutcome = "none"
    /\ dashOutcome = "none"
    /\ ResUnused
    /\ AuxUnused
    /\ Aux2Unused

NextDash ==
    \/ AsmBegin
    \/ AsmInitFetched
    \/ AsmMainFetched
    \/ AsmSegFetched
    \/ AsmFetchFailed
    \/ DashVideoAssembled
    \/ DashAudioAssembled
    \/ DashAssemblyThrew
    \/ DashMerge

SpecDash == InitDash /\ [][NextDash]_vars

\* C5: once mergeDashVideoAudio has returned or thrown, neither temporary
\* file exists.
C5_TempFilesRemoved ==
    muxOutcome # "none" => files \cap { TempVideo, TempAudio } = {}

\* C6: when the multiplexer exits non-zero, the remux throws, its caller
\* sees the failure, and the multiplexer has run once only.
C6_MuxFailureReported ==
    muxExit = "nonzero" =>
        /\ muxOutcome = "threw"
        /\ dashOutcome = "threw"
        /\ muxCalls = 1

\* the data ranges of a representation in the order lines 424-444 issue them
DataRanges(r) ==
    IF TotalLenPositive(r) THEN << MainRange(r) >>
    ELSE LET sr == CollectSegRanges(r)
             ok == SelectSeq(sr, LAMBDA x : parseByteRange(x) # NullRange)
         IN  [ i \in 1..Len(ok) |-> parseByteRange(ok[i]) ]

\* C14: within one run of the pipeline at most one range request is
\* outstanding, the requests of a representation are the initialization
\* range followed by its data ranges in their fixed order, and the
\* multiplexer is invoked only after both assemblies have returned a buffer.
C14_SequentialPipeline ==
    dashPc # "unused" =>
        /\ inflight \in { 0, 1 }
        /\ LET fixed == << InitRange(repr) >> \o DataRanges(repr)
           IN  /\ Len(requests) <= Len(fixed)
               /\ requests = SubSeq(fixed, 1, Len(requests))
        /\ Len(chunks) <= Len(requests)
        /\ (muxCalls > 0 \/ dashPc = "merge") =>
              /\ videoBuf # NoBuffer
              /\ audioBuf # NoBuffer

\* both assemblies are done, each after more than one request, with never
\* more than one outstanding, and the multiplexer has run
C14_Witness ==
    /\ muxCalls = 1
    /\ videoBuf # NoBuffer
    /\ audioBuf # NoBuffer
    /\ Len(requests) >= 2
    /\ inflight = 0

(***************************************************************************)
(* extractMediaRecursive                                                   *)
(***************************************************************************)
\* largest number of children of a carousel
MaxChildren == 2

\* what downloadBestQualityDash finds in the manifest of an item: no manifest
\* at all, XML that does not parse (line 468 rejects), no AdaptationSet array
\* (line 471), no video set (line 478), no audio set (line 482), or both sets
DashKinds ==
    { "absent", "malformed", "noSets", "noVideoSet", "noAudioSet", "ok" }

\* display_resources, by config_width; absent and empty behave alike
DisplayLists == { << >>, << 640, 1080 >> }

\* the leaves: items without edge_sidecar_to_children
LeafItems ==
    { it \in [ is_video : BOOLEAN, dash : DashKinds, video_url : BOOLEAN,
               display_resources : DisplayLists, edges : { FALSE },
               children : { << >> } ] :
        /\ ~it.is_video => (it.dash = "absent" /\ ~it.video_url)
        /\ it.dash # "absent" => ~it.video_url
        /\ it.dash \in { "malformed", "noSets", "noAudioSet" } =>
               it.display_resources = << >> }

SeqsUpTo(S, n) == UNION { [ 1..k -> S ] : k \in 0..n }

\* the fields a carousel item carries itself, beside its children
CarouselOwnFields ==
    { it \in [ is_video : BOOLEAN, dash : { "absent" }, video_url : BOOLEAN,
               display_resources : DisplayLists ] :
        it.is_video = it.video_url /\ it.is_video = (it.display_resources # << >>) }

Carousel(own, kids) ==
    [ is_video |-> own.is_video, dash |-> own.dash, video_url |-> own.video_url,
      display_resources |-> own.display_resources, edges |-> TRUE,
      children |-> kids ]

\* carousels of leaves
FlatCarousels ==
    { Carousel(own, kids) : own \in CarouselOwnFields,
                            kids \in SeqsUpTo(LeafItems, MaxChildren) }

ImageLeaf ==
    [ is_video |-> FALSE, dash |-> "absent", video_url |-> FALSE,
      display_resources |-> << 640, 1080 >>, edges |-> FALSE,
      children |-> << >> ]

PlainOwn ==
    [ is_video |-> FALSE, dash |-> "absent", video_url |-> FALSE,
      display_resources |-> << >> ]

\* carousels one level deeper: a child may itself be a carousel of image leaves
NestedCarousels ==
    { Carousel(PlainOwn, kids) :
        kids \in SeqsUpTo({ ImageLeaf, Carousel(PlainOwn, << ImageLeaf >>),
                            Carousel(PlainOwn, << ImageLeaf, ImageLeaf >>) },
                          MaxChildren) }

Items == LeafItems \cup FlatCarousels \cup NestedCarousels

\* the postName the outermost call is given
BaseName == << "p" >>

DigitChar(d) ==
    CASE d = 0 -> "0" [] d = 1 -> "1" [] d = 2 -> "2" [] d = 3 -> "3"
      [] d = 4 -> "4" [] d = 5 -> "5" [] d = 6 -> "6" [] d = 7 -> "7"
      [] d = 8 -> "8" [] d = 9 -> "9"

RECURSIVE DecString(_)
\* the decimal text of a natural number, as string concatenation formats it
DecString(n) ==
    IF n < 10 THEN << DigitChar(n) >>
    ELSE DecString(n \div 10) \o << DigitChar(n % 10) >>

\* a plausible slip: the suffix taken from the 0-based index
childName_ZeroBased(postName, i) == postName \o << "_" >> \o DecString(i)

\* line 772: postName + '_' + (i + 1), i the 0-based index
childName(postName, i) == postName \o << "_" >> \o DecString(i + 1)

\* an output file: postName + '.mp4' or postName + '.jpg'
OutFile(postName, ext) == [ name |-> postName, ext |-> ext ]

\* what may happen to an "ok" manifest on its way through lines 499-504:
\* a range request fails, a temporary file cannot be written, the
\* multiplexer exits non-zero, or the merge succeeds
DashEnvs == { "fetchFails", "writeFails", "muxFails", "merged" }

\* how downloadBestQualityDash ends for a manifest kind and an environment
downloadBestQualityDash(kind, env) ==
    CASE kind = "malformed" -> "threw"
      [] kind \in { "noSets", "noVideoSet", "noAudioSet" } -> "returnedNoFile"
      [] kind = "ok" ->
            IF env \in { "fetchFails", "writeFails" } THEN "threw"
            ELSE IF env = "muxFails" THEN "returnedNoFile"
            ELSE "saved"

\* what may happen to a plain download: body received and written, a non-2xx
\* response, nodeFetch rejecting, the write failing
FetchEnvs == { "ok", "httpError", "transportError", "writeFails" }

Top == stack[Len(stack)]

Frame(item, name, path) ==
    [ item |-> item, name |-> name, path |-> path, pc |-> "start",
      i |-> 0, count |-> 0 ]

SetTop(f) == [ stack EXCEPT ![Len(stack)] = f ]

\* an exception leaves every frame: no call of the recursion has a try/catch
ResThrow ==
    /\ stack' = << >>
    /\ resolveErr' = TRUE
    /\ failed' = TRUE
    /\ UNCHANGED << tree, visited, produced, counted, returned, resolveRet >>

\* the outermost call of extractMediaRecursive
ResCall ==
    /\ stack = << >>
    /\ visited = << >>
    /\ stack' = << Frame(tree, BaseName, << >>) >>
    /\ visited' = << [ path |-> << >>, name |-> BaseName ] >>
    /\ UNCHANGED << tree, produced, counted, returned, failed, resolveRet,
                    resolveErr >>
    /\ UNCHANGED << asmVars, dashVars, auxVars, aux2Vars >>

\* lines 770-773: the loop calls the next child
ResChildCall ==
    /\ stack # << >>
    /\ Top.item.edges
    /\ Top.i < Len(Top.item.children)
    /\ LET child == Top.item.children[Top.i + 1]
           name  == childName(Top.name, Top.i)
           path  == Append(Top.path, Top.i + 1)
       IN  /\ stack' = Append(stack, Frame(child, name, path))
           /\ visited' = Append(visited, [ path |-> path, name |-> name ])
    /\ UNCHANGED << tree, produced, counted, returned, failed, resolveRet,
                    resolveErr >>
    /\ UNCHANGED << asmVars, dashVars, auxVars, aux2Vars >>

\* lines 778-800: the is_video branch of a leaf
ResLeafVideo ==
    /\ stack # << >>
    /\ ~Top.item.edges
    /\ Top.pc = "start"
    /\ LET it   == Top.item
           mp4  == OutFile(Top.name, "mp4")
           next == [ Top EXCEPT !.pc = "image" ]
           cnt  == [ next EXCEPT !.count = @ + 1 ]
       IN  IF ~it.is_video
           THEN /\ stack' = SetTop(next)
                /\ UNCHANGED << tree, visited, produced, counted, returned,
                                failed, resolveRet, resolveErr >>
           ELSE IF it.dash # "absent"
           THEN \E env \in DashEnvs :
                  LET r == downloadBestQualityDash(it.dash, env)
                  IN  IF r = "threw" THEN ResThrow
                      ELSE /\ stack' = SetTop(cnt)
                           /\ counted' = counted \cup { mp4 }
                           /\ produced' = IF r = "saved"
                                          THEN produced \cup { mp4 }
                                          ELSE produced
                           /\ failed' = (failed \/ r # "saved")
                           /\ UNCHANGED << tree, visited, returned, resolveRet,
                                           resolveErr >>
           ELSE IF it.video_url
           THEN \E env \in FetchEnvs :
                  IF env \in { "ok", "httpError" }
                  THEN \* no test of resp.ok: the body is written either way
                       /\ stack' = SetTop(cnt)
                       /\ counted' = counted \cup { mp4 }
                       /\ produced' = produced \cup { mp4 }
                       /\ failed' = (failed \/ env # "ok")
                       /\ UNCHANGED << tree, visited, returned, resolveRet,
                                       resolveErr >>
                  ELSE \* caught at line 794: a warning only
                       /\ stack' = SetTop(next)
                       /\ failed' = TRUE
                       /\ UNCHANGED << tree, visited, produced, counted,
                                       returned, resolveRet, resolveErr >>
           ELSE /\ stack' = SetTop(next)
                /\ UNCHANGED << tree, visited, produced, counted, returned,
                                failed, resolveRet, resolveErr >>
    /\ UNCHANGED << asmVars, dashVars, auxVars, aux2Vars >>

\* lines 801-805 with downloadHighestResImage (537-551)
ResLeafImage ==
    /\ stack # << >>
    /\ ~Top.item.edges
    /\ Top.pc = "image"
    /\ LET it   == Top.item
           jpg  == OutFile(Top.name, "jpg")
           next == [ Top EXCEPT !.pc = "ret" ]
           cnt  == [ next EXCEPT !.count = @ + 1 ]
       IN  IF Len(it.display_resources) > 0
           THEN \E env \in FetchEnvs :
                  IF env \in { "transportError", "writeFails" }
                  THEN ResThrow
                  ELSE /\ stack' = SetTop(cnt)
                       /\ counted' = counted \cup { jpg }
                       /\ produced' = IF env = "ok" THEN produced \cup { jpg }
                                      ELSE produced
                       /\ failed' = (failed \/ env # "ok")
                       /\ UNCHANGED << tree, visited, returned, resolveRet,
                                       resolveErr >>
           ELSE /\ stack' = SetTop(next)
                /\ UNCHANGED << tree, visited, produced, counted, returned,
                                failed, resolveRet, resolveErr >>
    /\ UNCHANGED << asmVars, dashVars, auxVars, aux2Vars >>

\* lines 775 and 807: return downloadCount; the caller adds it (line 773)
ResReturn ==
    /\ stack # << >>
    /\ IF Top.item.edges THEN Top.i = Len(Top.item.children)
       ELSE Top.pc = "ret"
    /\ returned' = returned \cup { [ path |-> Top.path, count |-> Top.count ] }
    /\ IF Len(stack) = 1
       THEN /\ stack' = << >>
            /\ resolveRet' = << Top.count >>
       ELSE LET rest   == SubSeq(stack, 1, Len(stack) - 1)
                parent == rest[Len(rest)]
            IN  /\ stack' = [ rest EXCEPT ![Len(rest)] =
                                [ parent EXCEPT !.count = @ + Top.count,
                                                !.i = @ + 1 ] ]
                /\ UNCHANGED resolveRet
    /\ UNCHANGED << tree, visited, produced, counted, failed, resolveErr >>
    /\ UNCHANGED << asmVars, dashVars, auxVars, aux2Vars >>

InitResolve ==
    /\ tree \in Items
    /\ stack = << >>
    /\ visited = << >>
    /\ produced = {}
    /\ counted = {}
    /\ returned = {}
    /\ failed = FALSE
    /\ resolveRet = << >>
    /\ resolveErr = FALSE
    /\ repr = << >>
    /\ AsmIdle
    /\ DashUnused
    /\ AuxUnused
    /\ Aux2Unused

NextResolve ==
    \/ ResCall
    \/ ResChildCall
    \/ ResLeafVideo
    \/ ResLeafImage
    \/ ResReturn

SpecResolve == InitResolve /\ [][NextResolve]_vars

(***************************************************************************)
(* Properties of the resolver                                              *)
(***************************************************************************)
NoCount == << >>

RECURSIVE ItemAt(_, _)
\* the item at a position of the tree; a position is a path of child numbers
ItemAt(item, path) ==
    IF path = << >> THEN item
    ELSE ItemAt(item.children[Head(path)], Tail(path))

RECURSIVE ExpectedName(_)
\* the name the spec gives the item at a position: one "_<n>" per level
ExpectedName(path) ==
    IF path = << >> THEN BaseName
    ELSE ExpectedName(SubSeq(path, 1, Len(path) - 1))
             \o << "_" >> \o DecString(path[Len(path)])

VisitedAt(path) == { k \in 1..Len(visited) : visited[k].path = path }

HasReturned(path) == \E r \in returned : r.path = path

RetCount(path) == (CHOOSE r \in returned : r.path = path).count

RECURSIVE SumChildren(_, _)
\* the sum of the counts returned by children 1..n of the item at path
SumChildren(path, n) ==
    IF n = 0 THEN 0
    ELSE SumChildren(path, n - 1) + RetCount(Append(path, n))

FilesNamed(name) == { f \in produced \cup counted : f.name = name }

\* C7: a failing child of a carousel does not make resolve throw, every
\* sibling is still processed, and the total is the number of files produced.
C7_SiblingFailureIsolated ==
    tree.edges =>
        /\ ~resolveErr
        /\ resolveRet # NoCount =>
              /\ \A i \in 1..Len(tree.children) : VisitedAt(<< i >>) # {}
              /\ resolveRet = << Cardinality(produced) >>

\* C8: the count is incremented for a leaf's output file only when that file
\* was written.
C8_CountOnlyWrittenFiles == counted \subseteq produced

\* C9: a carousel of N leaves, each of which produced its file without any
\* failure, returns exactly N.
C9_AllSucceedReturnsN ==
    (/\ tree.edges
     /\ resolveRet # NoCount
     /\ ~failed
     /\ \A i \in 1..Len(tree.children) :
           /\ ~tree.children[i].edges
           /\ FilesNamed(childName(BaseName, i - 1)) \cap produced # {}) =>
        resolveRet = << Len(tree.children) >>

\* C10: child number n of a carousel is processed under the carousel's name
\* followed by "_n", the children are taken in index order, a carousel
\* returns the sum of what its children returned, and no file carries the
\* name of a carousel item.
C10_CarouselWalk ==
    /\ \A k \in 1..Len(visited) :
          LET p == visited[k].path
          IN  /\ visited[k].name = ExpectedName(p)
              /\ p # << >> =>
                    /\ \E j \in 1..(k - 1) :
                          visited[j].path = SubSeq(p, 1, Len(p) - 1)
                    /\ p[Len(p)] > 1 =>
                          \E j \in 1..(k - 1) :
                             visited[j].path =
                                 [ p EXCEPT ![Len(p)] = @ - 1 ]
              /\ ItemAt(tree, p).edges => FilesNamed(visited[k].name) = {}
    /\ \A r \in returned :
          ItemAt(tree, r.path).edges =>
              /\ \A i \in 1..Len(ItemAt(tree, r.path).children) :
                    HasReturned(Append(r.path, i))
              /\ r.count = SumChildren(r.path,
                                       Len(ItemAt(tree, r.path).children))

\* a carousel that carries video and image fields of its own has returned
\* the sum of its two children, which both produced a file
C10_Witness ==
    /\ tree.edges
    /\ tree.is_video
    /\ tree.video_url
    /\ tree.display_resources # << >>
    /\ Len(tree.children) = 2
    /\ resolveRet # NoCount
    /\ resolveRet[1] >= 2
    /\ OutFile(<< "p", "_", "2" >>, "jpg") \in produced
    /\ FilesNamed(BaseName) = {}

(***************************************************************************)
(* parseByteRange on its own                                               *)
(***************************************************************************)
\* longest string given to parseByteRange
MaxRangeLen == 4

\* the characters of the strings given to parseByteRange
RangeAlphabet == { "0", "1", "2", "-", "x" }

RangeInputs == UNION { [ 1..n -> RangeAlphabet ] : n \in 0..MaxRangeLen }

InitParse ==
    /\ parse \in [ str : RangeInputs, pc : { "call" }, result : { NullRange } ]
    /\ repr = << >>
    /\ AsmIdle
    /\ DashUnused
    /\ ResUnused
    /\ Aux2Unused
    /\ sel = << >>
    /\ pick = << >>
    /\ img = << >>
    /\ dr = << >>
    /\ mux2 = << >>

\* lines 402-406: one call of parseByteRange
ParseCall ==
    /\ parse.pc = "call"
    /\ parse' = [ parse EXCEPT !.pc = "done",
                               !.result = parseByteRange(parse.str) ]
    /\ UNCHANGED << asmVars, dashVars, resVars, aux2Vars, sel, pick, img, dr, mux2 >>

NextParse == ParseCall

SpecParse == InitParse /\ [][NextParse]_vars

\* the positions at which str splits into "<digits>-<digits>"
RangeSplits(str) ==
    { i \in 2..(Len(str) - 1) :
        /\ str[i] = "-"
        /\ AllDigits(SubSeq(str, 1, i - 1))
        /\ AllDigits(SubSeq(str, i + 1, Len(str))) }

\* str is "<start>-<end>" with non-negative integers start <= end
ValidRangeString(str) ==
    \E i \in RangeSplits(str) :
        DecValue(SubSeq(str, 1, i - 1)) <= DecValue(SubSeq(str, i + 1, Len(str)))

\* C16: parseByteRange returns [start, end] for every "<start>-<end>" with
\* start <= end, and null for every other string.
C16_ParseRoundTrip ==
    parse # << >> /\ parse.pc = "done" =>
        IF ValidRangeString(parse.str)
        THEN LET i == CHOOSE j \in RangeSplits(parse.str) : TRUE
             IN  parse.result = << DecValue(SubSeq(parse.str, 1, i - 1)),
                                   DecValue(SubSeq(parse.str, i + 1,
                                                   Len(parse.str))) >>
        ELSE parse.result = NullRange

(***************************************************************************)
(* findVideoAdaptationSet and findAudioAdaptationSet                       *)
(***************************************************************************)
\* largest number of adaptation sets in a period
MaxSets == 3

UpperCase == << "A", "B", "C", "D", "E", "F", "G", "H", "I", "J", "K", "L",
                "M", "N", "O", "P", "Q", "R", "S", "T", "U", "V", "W", "X",
                "Y", "Z" >>
LowerCase == << "a", "b", "c", "d", "e", "f", "g", "h", "i", "j", "k", "l",
                "m", "n", "o", "p", "q", "r", "s", "t", "u", "v", "w", "x",
                "y", "z" >>

\* String.prototype.toLowerCase
toLowerCase(str) ==
    [ i \in 1..Len(str) |->
        IF \E k \in 1..Len(UpperCase) : UpperCase[k] = str[i]
        THEN LowerCase[CHOOSE k \in 1..Len(UpperCase) : UpperCase[k] = str[i]]
        ELSE str[i] ]

\* String.prototype.includes
includes(str, sub) ==
    \E i \in 0..(Len(str) - Len(sub)) : SubSeq(str, i + 1, i + Len(sub)) = sub

StrVideo == << "v", "i", "d", "e", "o" >>
StrAudio == << "a", "u", "d", "i", "o" >>
StrAvc1 == << "a", "v", "c", "1" >>
StrMp4a == << "m", "p", "4", "a" >>

\* a plausible slip: the contentType compared without lower-casing it
directMatch_CaseSensitive(a, want) ==
    (IF Truthy(a.contentType) THEN a.contentType ELSE << >>) = want

\* (a.$.contentType || '').toLowerCase() === want
directMatch(a, want) ==
    toLowerCase(IF Truthy(a.contentType) THEN a.contentType ELSE << >>) = want

\* Array.isArray(a.Representation) ? a.Representation : [a.Representation]
normalizedReps(a) == a.Representation.reps

\* what the selectors return besides a set
SelNone == [ kind |-> "none", idx |-> 0 ]
SelThrew == [ kind |-> "threw", idx |-> 0 ]
SelFound(i) == [ kind |-> "found", idx |-> i ]

RECURSIVE sniffFrom(_, _, _, _)
\* the for-of loop of lines 512-518 (526-532) from index i on: mime and codec
\* are the two substrings looked for
sniffFrom(sets, i, mime, codec) ==
    IF i > Len(sets) THEN SelNone
    ELSE LET a == sets[i]
         IN  IF a.Representation.kind = "absent"
             THEN sniffFrom(sets, i + 1, mime, codec)
             ELSE IF Len(normalizedReps(a)) = 0
             THEN \* reps[0] is undefined: reading .$ of it throws
                  SelThrew
             ELSE LET r0 == normalizedReps(a)[1]
                  IN  IF Truthy(r0.mimeType) /\ includes(r0.mimeType, mime)
                      THEN SelFound(i)
                      ELSE IF Truthy(r0.codecs) /\ includes(r0.codecs, codec)
                      THEN SelFound(i)
                      ELSE sniffFrom(sets, i + 1, mime, codec)

\* lines 509-519 and 523-533, want being 'video' or 'audio'
findAdaptationSet(sets, want, mime, codec) ==
    LET direct == { i \in 1..Len(sets) : directMatch(sets[i], want) }
    IN  IF direct # {}
        THEN SelFound(CHOOSE i \in direct : \A j \in direct : i <= j)
        ELSE sniffFrom(sets, 1, mime, codec)

findVideoAdaptationSet(sets) == findAdaptationSet(sets, StrVideo, StrVideo, StrAvc1)

findAudioAdaptationSet(sets) == findAdaptationSet(sets, StrAudio, StrAudio, StrMp4a)

\* the `$` of a representation, as far as the selectors read it
ReprAttrs(mimeType, codecs) == [ mimeType |-> mimeType, codecs |-> codecs ]

NoReps == [ kind |-> "absent", reps |-> << >> ]
RepsArray(reps) == [ kind |-> "array", reps |-> reps ]
RepsObject(r) == [ kind |-> "object", reps |-> << r >> ]

ASet(contentType, representation) ==
    [ contentType |-> contentType, Representation |-> representation ]

MimeVideo == << "v", "i", "d", "e", "o", "/", "m", "p", "4" >>
MimeAudio == << "a", "u", "d", "i", "o", "/", "m", "p", "4" >>
MimeText == << "t", "e", "x", "t", "/", "v", "t", "t" >>
CodecAvc == << "a", "v", "c", "1", ".", "4", "d" >>
CodecAac == << "m", "p", "4", "a", ".", "4", "0" >>
CodecVp9 == << "v", "p", "0", "9" >>

\* the adaptation sets the selectors are tried on: tagged ones (some with
\* hints of the other kind), untagged ones with one hint each, an untagged
\* one whose first representation is video by mimeType and audio by codecs,
\* and untagged ones without a usable first representation
AdaptationSets ==
    { ASet(<< "v", "i", "d", "e", "o" >>, NoReps),
      ASet(<< "V", "I", "D", "E", "O" >>, RepsArray(<< ReprAttrs(MimeAudio, CodecAac) >>)),
      ASet(<< "a", "u", "d", "i", "o" >>, RepsObject(ReprAttrs(MimeVideo, Undefined))),
      ASet(<< "A", "u", "d", "i", "o" >>, NoReps),
      ASet(<< "t", "e", "x", "t" >>, RepsArray(<< ReprAttrs(MimeText, Undefined) >>)),
      ASet(Undefined, RepsObject(ReprAttrs(MimeVideo, Undefined))),
      ASet(Undefined, RepsArray(<< ReprAttrs(Undefined, CodecAvc),
                                  ReprAttrs(MimeAudio, Undefined) >>)),
      ASet(Undefined, RepsArray(<< ReprAttrs(MimeAudio, Undefined) >>)),
      ASet(Undefined, RepsObject(ReprAttrs(Undefined, CodecAac))),
      ASet(Undefined, RepsArray(<< ReprAttrs(MimeText, CodecVp9) >>)),
      ASet(Undefined, RepsObject(ReprAttrs(MimeVideo, CodecAac))),
      ASet(Undefined, NoReps),
      ASet(Undefined, RepsArray(<< >>)) }

SelNotCalled == [ kind |-> "notCalled", idx |-> 0 ]

InitSelect ==
    /\ sel \in [ sets : SeqsUpTo(AdaptationSets, MaxSets),
                 video : { SelNotCalled }, audio : { SelNotCalled } ]
    /\ repr = << >>
    /\ AsmIdle
    /\ DashUnused
    /\ ResUnused
    /\ Aux2Unused
    /\ parse = << >>
    /\ pick = << >>
    /\ img = << >>
    /\ dr = << >>
    /\ mux2 = << >>

\* line 476
SelFindVideo ==
    /\ sel.video = SelNotCalled
    /\ sel' = [ sel EXCEPT !.video = findVideoAdaptationSet(sel.sets) ]
    /\ UNCHANGED << asmVars, dashVars, resVars, aux2Vars, parse, pick, img, dr, mux2 >>

\* line 477
SelFindAudio ==
    /\ sel.audio = SelNotCalled
    /\ sel' = [ sel EXCEPT !.audio = findAudioAdaptationSet(sel.sets) ]
    /\ UNCHANGED << asmVars, dashVars, resVars, aux2Vars, parse, pick, img, dr, mux2 >>

NextSelect ==
    \/ SelFindVideo
    \/ SelFindAudio

SpecSelect == InitSelect /\ [][NextSelect]_vars

\* the set is tagged: its contentType equals the word, case-insensitively
Tagged(a, word) ==
    /\ a.contentType # Undefined
    /\ toLowerCase(a.contentType) = word

HasTagged(sets, word) == \E i \in 1..Len(sets) : Tagged(sets[i], word)

\* C11: when the sets contain a video-tagged and an audio-tagged set, the
\* video selector returns a video-tagged set and the audio selector an
\* audio-tagged set, wherever they stand and whatever hints the sets carry.
C11_TaggedSetsSelected ==
    (sel # << >> /\ HasTagged(sel.sets, StrVideo) /\ HasTagged(sel.sets, StrAudio)) =>
        /\ sel.video # SelNotCalled =>
              /\ sel.video.kind = "found"
              /\ Tagged(sel.sets[sel.video.idx], StrVideo)
        /\ sel.audio # SelNotCalled =>
              /\ sel.audio.kind = "found"
              /\ Tagged(sel.sets[sel.audio.idx], StrAudio)

\* an upper-case VIDEO tag is found behind an untagged set that hints video
C11_Witness ==
    /\ sel # << >>
    /\ Len(sel.sets) = 3
    /\ sel.sets[1].contentType = Undefined
    /\ sel.sets[1].Representation.kind = "object"
    /\ sel.sets[1].Representation.reps[1].mimeType = MimeVideo
    /\ sel.sets[2].contentType = << "V", "I", "D", "E", "O" >>
    /\ sel.sets[3].contentType = << "A", "u", "d", "i", "o" >>
    /\ sel.video = SelFound(2)
    /\ sel.audio = SelFound(3)

\* the first representation of a set hints the track: mimeType contains the
\* word or codecs contains the codec name
Hints(a, word, codec) ==
    /\ a.Representation.kind # "absent"
    /\ Len(a.Representation.reps) > 0
    /\ LET r0 == a.Representation.reps[1]
       IN  \/ (r0.mimeType # Undefined /\ includes(r0.mimeType, word))
           \/ (r0.codecs # Undefined /\ includes(r0.codecs, codec))

\* the selector's due result on untagged sets: the first hinting set, or none
FirstHinting(sets, word, codec) ==
    LET hs == { i \in 1..Len(sets) : Hints(sets[i], word, codec) }
    IN  IF hs = {} THEN SelNone
        ELSE SelFound(CHOOSE i \in hs : \A j \in hs : i <= j)

Untagged(sets) == \A i \in 1..Len(sets) : sets[i].contentType = Undefined

\* C12: on sets without contentType tags each selector returns the first set
\* whose first representation hints its track, and none, without throwing,
\* when there is no such set.
C12_UntaggedSniffing ==
    (sel # << >> /\ Untagged(sel.sets)) =>
        /\ sel.video # SelNotCalled =>
              sel.video = FirstHinting(sel.sets, StrVideo, StrAvc1)
        /\ sel.audio # SelNotCalled =>
              sel.audio = FirstHinting(sel.sets, StrAudio, StrMp4a)

(***************************************************************************)
(* The pick of the best representation, lines 487-494                      *)
(***************************************************************************)
\* largest number of representations in an adaptation set
MaxReprs == 3

\* values of the bandwidth attribute: absent, "0", "100", "500", "abc"
BandwidthStrs == { Undefined, << "0" >>, << "1", "0", "0" >>, << "5", "0", "0" >>, << "a", "b", "c" >> }

\* parseInt(r.$.bandwidth || '0', 10): << n >>, or << >> for NaN
bandwidthOf(bw) == parseInt(IF Truthy(bw) THEN bw ELSE << "0" >>)

\* the comparator of lines 490-491; a NaN difference counts as 0 in sort()
compareFn(a, b) ==
    IF bandwidthOf(a) = << >> \/ bandwidthOf(b) = << >> THEN 0
    ELSE bandwidthOf(b)[1] - bandwidthOf(a)[1]

PositionOrders(n) ==
    { p \in [ 1..n -> 1..n ] : \A i, j \in 1..n : p[i] = p[j] => i = j }

\* the comparator orders the list consistently: being equal under it is
\* transitive
ConsistentOn(list) ==
    \A i, j, k \in 1..Len(list) :
        (compareFn(list[i], list[j]) = 0 /\ compareFn(list[j], list[k]) = 0)
            => compareFn(list[i], list[k]) = 0

\* Array.prototype.sort(compareFn): the orders it may leave the list in, as
\* permutations of the positions.  The sort is stable for a consistent
\* comparator; for an inconsistent one the order is implementation-defined.
sortOrders(list) ==
    IF ConsistentOn(list)
    THEN { p \in PositionOrders(Len(list)) :
             \A i, j \in 1..Len(list) :
                i < j => \/ compareFn(list[p[i]], list[p[j]]) < 0
                         \/ /\ compareFn(list[p[i]], list[p[j]]) = 0
                            /\ p[i] < p[j] }
    ELSE PositionOrders(Len(list))

InitPick ==
    /\ pick \in [ list : SeqsUpTo(BandwidthStrs, MaxReprs) \ { << >> },
                  order : { << >> }, picks : { << >> } ]
    /\ repr = << >>
    /\ AsmIdle
    /\ DashUnused
    /\ ResUnused
    /\ Aux2Unused
    /\ parse = << >>
    /\ sel = << >>
    /\ img = << >>
    /\ dr = << >>
    /\ mux2 = << >>

\* lines 490 and 493: sort in place, take element 0.  pick.order maps the
\* positions of the array as it now stands to the positions first listed;
\* pick.picks are the first-listed positions of the picks made so far.
PickBest ==
    /\ Len(pick.picks) < 2
    /\ LET cur   == IF pick.order = << >>
                    THEN [ i \in 1..Len(pick.list) |-> i ] ELSE pick.order
           array == [ i \in 1..Len(cur) |-> pick.list[cur[i]] ]
       IN  \E p \in sortOrders(array) :
             LET new == [ i \in 1..Len(cur) |-> cur[p[i]] ]
             IN  pick' = [ pick EXCEPT !.order = new,
                                       !.picks = Append(@, new[1]) ]
    /\ UNCHANGED << asmVars, dashVars, resVars, aux2Vars, parse, sel, img, dr, mux2 >>

NextPick == PickBest

SpecPick == InitPick /\ [][NextPick]_vars

\* the bandwidth as the spec counts it: 0 when missing or unparseable
BandwidthOrZero(bw) ==
    IF bw = Undefined \/ parseInt(bw) = << >> THEN 0 ELSE parseInt(bw)[1]

\* C13: the representation picked has the maximum bandwidth, a missing or
\* unparseable one counting as 0, it is the first-listed of those that have
\* it, and a second pick from the same list gives the same representation.
C13_PickMaxBandwidth ==
    pick # << >> =>
        /\ \A k \in 1..Len(pick.picks) :
              LET b == pick.picks[k]
              IN  /\ \A j \in 1..Len(pick.list) :
                        BandwidthOrZero(pick.list[j])
                            <= BandwidthOrZero(pick.list[b])
                  /\ \A j \in 1..(b - 1) :
                        BandwidthOrZero(pick.list[j])
                            < BandwidthOrZero(pick.list[b])
        /\ Len(pick.picks) = 2 => pick.picks[1] = pick.picks[2]

(***************************************************************************)
(* Two remux operations side by side: mergeDashVideoAudio run by two       *)
(* processes of the tool in one working directory.  execSync and the       *)
(* *Sync file calls block their own process only, so the steps of the two  *)
(* operations interleave.                                                  *)
(***************************************************************************)
MuxOps == { 1, 2 }

\* the temporary paths operation op uses, lines 452-453 and 461-462: the
\* same literals whatever the operation
tempPaths(op) == [ video |-> TempVideo, audio |-> TempAudio ]

AllTempPaths == UNION { { tempPaths(op).video, tempPaths(op).audio } : op \in MuxOps }

\* no temporary file on disk; disk[p] is 0 when p does not exist, else the
\* operation whose buffer was last written to it
EmptyDisk == [ p \in AllTempPaths |-> 0 ]

InitMux2 ==
    /\ mux2 = [ pc      |-> [ op \in MuxOps |-> "start" ],
                touched |-> [ op \in MuxOps |-> {} ],
                disk    |-> EmptyDisk,
                muxed   |-> [ op \in MuxOps |-> << >> ] ]
    /\ repr = << >>
    /\ AsmIdle
    /\ DashUnused
    /\ ResUnused
    /\ Aux2Unused
    /\ parse = << >>
    /\ sel = << >>
    /\ pick = << >>
    /\ img = << >>
    /\ dr = << >>

\* fs.writeFileSync(path, buf) by operation op
MuxWrite(op, path, how, next) ==
    mux2' = [ mux2 EXCEPT
                !.pc[op] = IF how = "ok" THEN next ELSE "threw",
                !.touched[op] = @ \cup { path },
                !.disk[path] = IF how = "failedOpen" THEN @ ELSE op ]

\* line 452
MuxWriteVideo ==
    /\ mux2 # << >>
    /\ \E op \in MuxOps, how \in WriteOutcomes :
         /\ mux2.pc[op] = "start"
         /\ MuxWrite(op, tempPaths(op).video, how, "wroteVideo")
    /\ UNCHANGED << asmVars, dashVars, resVars, aux2Vars, parse, sel, pick, img, dr >>

\* line 453
MuxWriteAudio ==
    /\ mux2 # << >>
    /\ \E op \in MuxOps, how \in WriteOutcomes :
         /\ mux2.pc[op] = "wroteVideo"
         /\ MuxWrite(op, tempPaths(op).audio, how, "wroteAudio")
    /\ UNCHANGED << asmVars, dashVars, resVars, aux2Vars, parse, sel, pick, img, dr >>

\* lines 455-459: ffmpeg reads the two temporary files; whatever its exit,
\* control reaches the finally block
MuxExec ==
    /\ mux2 # << >>
    /\ \E op \in MuxOps :
         /\ mux2.pc[op] = "wroteAudio"
         /\ mux2' = [ mux2 EXCEPT
                        !.pc[op] = "ran",
                        !.touched[op] = @ \cup { tempPaths(op).video,
                                                 tempPaths(op).audio },
                        !.muxed[op] = << mux2.disk[tempPaths(op).video],
                                         mux2.disk[tempPaths(op).audio] >> ]
    /\ UNCHANGED << asmVars, dashVars, resVars, aux2Vars, parse, sel, pick, img, dr >>

\* line 461
MuxUnlinkVideo ==
    /\ mux2 # << >>
    /\ \E op \in MuxOps :
         /\ mux2.pc[op] = "ran"
         /\ mux2' = [ mux2 EXCEPT
                        !.pc[op] = "unlinkedVideo",
                        !.touched[op] = @ \cup { tempPaths(op).video },
                        !.disk[tempPaths(op).video] = 0 ]
    /\ UNCHANGED << asmVars, dashVars, resVars, aux2Vars, parse, sel, pick, img, dr >>

\* line 462
MuxUnlinkAudio ==
    /\ mux2 # << >>
    /\ \E op \in MuxOps :
         /\ mux2.pc[op] = "unlinkedVideo"
         /\ mux2' = [ mux2 EXCEPT
                        !.pc[op] = "done",
                        !.touched[op] = @ \cup { tempPaths(op).audio },
                        !.disk[tempPaths(op).audio] = 0 ]
    /\ UNCHANGED << asmVars, dashVars, resVars, aux2Vars, parse, sel, pick, img, dr >>

NextMux2 ==
    \/ MuxWriteVideo
    \/ MuxWriteAudio
    \/ MuxExec
    \/ MuxUnlinkVideo
    \/ MuxUnlinkAudio

SpecMux2 == InitMux2 /\ [][NextMux2]_vars

MuxInProgress(op) ==
    mux2.pc[op] \in { "wroteVideo", "wroteAudio", "ran", "unlinkedVideo" }

\* C15: two remux operations in progress at the same time have not written,
\* read or deleted a common temporary path.
C15_TempPathsUnique ==
    mux2 # << >> =>
        \A a, b \in MuxOps :
            (a # b /\ MuxInProgress(a) /\ MuxInProgress(b))
                => mux2.touched[a] \cap mux2.touched[b] = {}

\* a video leaf, resolve called on it directly
VideoLeafRoot ==
    /\ tree # << >>
    /\ ~tree.edges
    /\ tree.is_video

\* C17: resolve on a video item with neither a DASH manifest nor a direct
\* video URL returns 0, does not throw and writes no file.
C17_NoMethodReturnsZero ==
    (VideoLeafRoot /\ tree.dash = "absent" /\ ~tree.video_url) =>
        /\ ~resolveErr
        /\ produced = {}
        /\ resolveRet # NoCount => resolveRet = << 0 >>

\* C18: for a video leaf with no manifest but a direct video URL, a fetch
\* that succeeds saves baseName.mp4 and counts 1; a fetch that fails, by a
\* transport error or a non-success status, counts nothing; resolve does not
\* throw either way.
C18_DirectUrlFallback ==
    (VideoLeafRoot /\ tree.dash = "absent" /\ tree.video_url
        /\ tree.display_resources = << >>) =>
        /\ ~resolveErr
        /\ resolveRet # NoCount =>
              IF failed
              THEN resolveRet = << 0 >> /\ counted = {}
              ELSE /\ resolveRet = << 1 >>
                   /\ produced = { OutFile(BaseName, "mp4") }

(***************************************************************************)
(* downloadHighestResImage, lines 537-551                                  *)
(***************************************************************************)
\* largest number of display resources of an item
MaxResources == 4

\* values of config_width
Widths == { 150, 640, 1080 }

\* the lists of display resources: entry i has its own src, written i
ResourceLists ==
    { [ i \in 1..Len(ws) |-> [ src |-> i, config_width |-> ws[i] ] ] :
        ws \in SeqsUpTo(Widths, MaxResources) \ { << >> } }

\* a plausible slip: >= lets a later entry of the same width replace acc
wider_OrEqual(cur, acc) == cur.config_width >= acc.config_width

\* the test of the reducer, line 538
wider(cur, acc) == cur.config_width > acc.config_width

RECURSIVE reduceFrom(_, _, _)
\* Array.prototype.reduce without an initial value, from index i on with
\* accumulator acc
reduceFrom(list, i, acc) ==
    IF i > Len(list) THEN acc
    ELSE reduceFrom(list, i + 1, IF wider(list[i], acc) THEN list[i] ELSE acc)

\* line 538: acc starts as element 0, cur runs over the rest
bestResource(list) == reduceFrom(list, 2, list[1])

InitImage ==
    /\ img \in [ list : ResourceLists, pc : { "call" }, fetched : { << >> },
                 saved : { << >> }, outcome : { "none" } ]
    /\ repr = << >>
    /\ AsmIdle
    /\ DashUnused
    /\ ResUnused
    /\ Aux2Unused
    /\ parse = << >>
    /\ sel = << >>
    /\ pick = << >>
    /\ dr = << >>
    /\ mux2 = << >>

\* lines 538-540: pick, then request best.src
ImgRequest ==
    /\ img # << >>
    /\ img.pc = "call"
    /\ img' = [ img EXCEPT !.pc = "awaitFetch",
                           !.fetched = << bestResource(img.list).src >> ]
    /\ UNCHANGED << asmVars, dashVars, resVars, aux2Vars, parse, sel, pick, dr, mux2 >>

\* lines 540-550: the response, or the rejection of nodeFetch
ImgResponse ==
    /\ img # << >>
    /\ img.pc = "awaitFetch"
    /\ \E env \in FetchEnvs :
         img' = [ img EXCEPT
                    !.pc = "done",
                    !.saved = IF env = "ok" THEN img.fetched ELSE << >>,
                    !.outcome = IF env \in { "ok", "httpError" }
                                THEN "returned" ELSE "threw" ]
    /\ UNCHANGED << asmVars, dashVars, resVars, aux2Vars, parse, sel, pick, dr, mux2 >>

NextImage ==
    \/ ImgRequest
    \/ ImgResponse

SpecImage == InitImage /\ [][NextImage]_vars

\* position b of the list holds the first entry of maximum width
FirstWidest(list, b) ==
    /\ \A j \in 1..Len(list) : list[j].config_width <= list[b].config_width
    /\ \A j \in 1..(b - 1) : list[j].config_width < list[b].config_width

\* C19: for a non-empty list of display resources the entry requested, and
\* saved when the download succeeds, has the maximum width and is the first
\* entry of that width in list order.
C19_WidestFirstWins ==
    (img # << >> /\ img.fetched # << >>) =>
        /\ FirstWidest(img.list, img.fetched[1])
        /\ img.saved # << >> => img.saved = img.fetched

\* an image was saved from a list whose maximum width occurs twice, first
\* at a position other than the first
C19_Witness ==
    /\ img # << >>
    /\ img.saved # << >>
    /\ img.saved[1] > 1
    /\ \E j \in (img.saved[1] + 1)..Len(img.list) :
          img.list[j].config_width = img.list[img.saved[1]].config_width

(***************************************************************************)
(* downloadRange, lines 385-400                                            *)
(***************************************************************************)
\* largest number of calls of downloadRange in a run
MaxRangeCalls == 2

Urls == { "u1", "u2" }
\* an optional number argument: << >> is undefined
StartArgs == { << >>, << 0 >> }
EndArgs == { << >>, << 9 >> }
Statuses == { 200, 299, 300, 404 }
Bodies == { "b1", "b2" }

\* lines 386-390: the Range header, "none" for a full-content request
rangeHeader(start, end) ==
    IF start # << >> /\ end # << >>
    THEN [ unit |-> "bytes", start |-> start[1], end |-> end[1] ]
    ELSE [ unit |-> "none" ]

\* a plausible slip: redirects and not-modified answers taken as success
ResOk_Loose(status) == status < 400

\* res.ok of line 395
ResOk(status) == status >= 200 /\ status < 300

InitDownloadRange ==
    /\ dr = [ pc |-> "idle", calls |-> << >>, sent |-> << >>,
              responses |-> << >>, results |-> << >> ]
    /\ repr = << >>
    /\ AsmIdle
    /\ DashUnused
    /\ ResUnused
    /\ Aux2Unused
    /\ parse = << >>
    /\ sel = << >>
    /\ pick = << >>
    /\ img = << >>
    /\ mux2 = << >>

\* lines 385-393, up to the await of nodeFetch: one request goes out
DrCall ==
    /\ dr # << >>
    /\ dr.pc = "idle"
    /\ Len(dr.calls) < MaxRangeCalls
    /\ \E url \in Urls, start \in StartArgs, end \in EndArgs :
         dr' = [ dr EXCEPT
                   !.pc = "awaitFetch",
                   !.calls = Append(@, [ url |-> url, start |-> start,
                                         end |-> end ]),
                   !.sent = Append(@, [ call |-> Len(dr.calls) + 1,
                                        url |-> url,
                                        range |-> rangeHeader(start, end) ]) ]
    /\ UNCHANGED << asmVars, dashVars, resVars, aux2Vars, parse, sel, pick, img, mux2 >>

\* lines 393-399: the response arrives and, when res.ok, its body is read
DrResponse ==
    /\ dr # << >>
    /\ dr.pc = "awaitFetch"
    /\ \E status \in Statuses, body \in Bodies :
         LET call == dr.calls[Len(dr.calls)]
         IN  dr' = [ dr EXCEPT
                       !.pc = "idle",
                       !.responses = Append(@, [ status |-> << status >>,
                                                 body |-> body ]),
                       !.results = Append(@,
                           IF ResOk(status)
                           THEN [ kind |-> "returned", body |-> body ]
                           ELSE [ kind |-> "threw", status |-> << status >>,
                                  url |-> call.url ]) ]
    /\ UNCHANGED << asmVars, dashVars, resVars, aux2Vars, parse, sel, pick, img, mux2 >>

\* line 393: nodeFetch rejects, no response; the rejection is not caught
DrRejected ==
    /\ dr # << >>
    /\ dr.pc = "awaitFetch"
    /\ dr' = [ dr EXCEPT
                 !.pc = "idle",
                 !.responses = Append(@, [ status |-> << >>, body |-> "none" ]),
                 !.results = Append(@, [ kind |-> "threw", status |-> << >>,
                                         url |-> "none" ]) ]
    /\ UNCHANGED << asmVars, dashVars, resVars, aux2Vars, parse, sel, pick, img, mux2 >>

NextRange ==
    \/ DrCall
    \/ DrResponse
    \/ DrRejected

SpecRange == InitDownloadRange /\ [][NextRange]_vars

MaxDefined == 1

\* a setting a source does not define (undefined)
NotSet == << >>

\* the values a source may give to each setting, valid and invalid ones
OutputDirs == { NotSet, << "a" >>, << "b" >> }
Qualities == { NotSet, << "medium" >>, << "ultra" >> }
SizeThresholds == { NotSet, << "1k" >>, << "big" >> }
Timeouts == { NotSet, << 30 >>, << 0 >> }
Verbosities == { NotSet, << TRUE >>, << FALSE >> }
InstagramConfigs == { NotSet, << [ quality |-> "low" ] >> }
YouTubeConfigs == { NotSet, << [ format |-> "mp4" ] >> }

DefinedCount(c) ==
    (IF c.outputDir = NotSet THEN 0 ELSE 1)
    + (IF c.quality = NotSet THEN 0 ELSE 1)
    + (IF c.sizeThreshold = NotSet THEN 0 ELSE 1)
    + (IF c.timeout = NotSet THEN 0 ELSE 1)
    + (IF c.verbose = NotSet THEN 0 ELSE 1)
    + (IF c.instagram = NotSet THEN 0 ELSE 1)
    + (IF c.youtube = NotSet THEN 0 ELSE 1)

\* Partial<Config>: what a configuration file or the command line may hold
PartialConfigs ==
    { c \in [ outputDir : OutputDirs, quality : Qualities,
              sizeThreshold : SizeThresholds, timeout : Timeouts,
              verbose : Verbosities, instagram : InstagramConfigs,
              youtube : YouTubeConfigs ] : DefinedCount(c) <= MaxDefined }

\* what explorer.search returns: null, or a result with a config
SearchResults ==
    { [ found |-> FALSE, config |-> NotSet ] }
        \cup { [ found |-> TRUE, config |-> << c >> ] : c \in PartialConfigs }

\* lines 31-44
defaultConfig ==
    [ outputDir |-> << "output" >>, quality |-> << "high" >>,
      sizeThreshold |-> << "10k" >>, timeout |-> << 10 >>,
      verbose |-> << FALSE >>,
      instagram |-> << [ quality |-> "high",
                         sessionFile |-> ".instagram_session.json" ] >>,
      youtube |-> << [ quality |-> "best" ] >> ]

\* a plausible slip: a value already set is kept
mergeScalar_KeepBase(base, over) == IF base # NotSet THEN base ELSE over

\* if (override.x !== undefined) merged.x = override.x, lines 96-100
mergeScalar(base, over) == IF over # NotSet THEN over ELSE base

\* { ...base.x, ...override.x } when override.x is set, lines 103-116
mergeNested(base, over) ==
    IF over = NotSet THEN base
    ELSE IF base = NotSet THEN over
    ELSE << [ k \in DOMAIN base[1] \cup DOMAIN over[1] |->
                IF k \in DOMAIN over[1] THEN over[1][k] ELSE base[1][k] ] >>

\* lines 92-119
mergeConfig(base, override) ==
    [ outputDir |-> mergeScalar(base.outputDir, override.outputDir),
      quality |-> mergeScalar(base.quality, override.quality),
      sizeThreshold |-> mergeScalar(base.sizeThreshold, override.sizeThreshold),
      timeout |-> mergeScalar(base.timeout, override.timeout),
      verbose |-> mergeScalar(base.verbose, override.verbose),
      instagram |-> mergeNested(base.instagram, override.instagram),
      youtube |-> mergeNested(base.youtube, override.youtube) ]

\* lines 121-153, for the values above: TRUE when nothing is thrown
validateConfig(config) ==
    /\ config.quality \in { NotSet, << "high" >>, << "medium" >>, << "low" >> }
    /\ config.timeout # NotSet => config.timeout[1] > 0
    /\ config.sizeThreshold \in { NotSet, << "10k" >>, << "1k" >> }
    /\ config.instagram # NotSet =>
          ("quality" \in DOMAIN config.instagram[1] =>
              config.instagram[1].quality \in { "high", "medium", "low" })
    /\ config.youtube # NotSet =>
          ("quality" \in DOMAIN config.youtube[1] =>
              config.youtube[1].quality \in { "best", "high", "medium", "low" })

\* lines 67-90, before validation
loadConfig(local, home) ==
    LET c0 == defaultConfig
        c1 == IF home.found /\ home.config # NotSet
              THEN mergeConfig(c0, home.config[1]) ELSE c0
        c2 == IF local.found /\ local.config # NotSet
              THEN mergeConfig(c1, local.config[1]) ELSE c1
    IN  c2

InitConfig ==
    /\ cfg \in [ local : SearchResults, home : SearchResults,
                 cli : PartialConfigs, pc : { "new" }, config : { NotSet },
                 effective : { NotSet } ]
    /\ repr = << >>
    /\ AsmIdle
    /\ DashUnused
    /\ ResUnused
    /\ AuxUnused
    /\ ig = << >>
    /\ idl = << >>
    /\ coll = << >>
    /\ http = << >>
    /\ leg = << >>
    /\ stor = << >>

\* lines 51-65 and 67-90: the constructor loads and validates
CfgLoad ==
    /\ cfg # << >>
    /\ cfg.pc = "new"
    /\ LET c == loadConfig(cfg.local, cfg.home)
       IN  IF validateConfig(c)
           THEN cfg' = [ cfg EXCEPT !.pc = "loaded", !.config = << c >> ]
           ELSE cfg' = [ cfg EXCEPT !.pc = "threw" ]
    /\ UNCHANGED << asmVars, dashVars, resVars, auxVars,
                    ig, idl, coll, http, leg, stor >>

\* lines 165-167
CfgApplyCliOverrides ==
    /\ cfg # << >>
    /\ cfg.pc = "loaded"
    /\ cfg' = [ cfg EXCEPT !.pc = "applied",
                           !.effective = << mergeConfig(cfg.config[1], cfg.cli) >> ]
    /\ UNCHANGED << asmVars, dashVars, resVars, auxVars,
                    ig, idl, coll, http, leg, stor >>

NextConfig ==
    \/ CfgLoad
    \/ CfgApplyCliOverrides

SpecConfig == InitConfig /\ [][NextConfig]_vars

\* what a source gives for a setting: pick(c) of its config, or NotSet
Given(result, pickField(_)) ==
    IF result.found /\ result.config # NotSet THEN pickField(result.config[1])
    ELSE NotSet

\* the value of the highest-precedence source that defines the setting
Precedence(dflt, home, local, cli) ==
    IF cli # NotSet THEN cli
    ELSE IF local # NotSet THEN local
    ELSE IF home # NotSet THEN home
    ELSE dflt

EffectiveIs(pickField(_)) ==
    pickField(cfg.effective[1]) =
        Precedence(pickField(defaultConfig), Given(cfg.home, pickField),
                   Given(cfg.local, pickField), pickField(cfg.cli))

IgConfigs ==
    [ outputDir : { NotSet, << "a" >> }, quality : { NotSet, << "medium" >> },
      instagram : { NotSet, << [ quality |-> "low" ] >>,
                    << [ sessionFile |-> "s.json" ] >> } ]

\* lines 816-820: the configuration handed to createInstagramDownloader
downloaderConfig(c) ==
    [ outputDir |-> IF c.outputDir # NotSet THEN c.outputDir[1] ELSE "output",
      quality |->
          IF c.instagram # NotSet /\ "quality" \in DOMAIN c.instagram[1]
          THEN c.instagram[1].quality
          ELSE IF c.quality # NotSet THEN c.quality[1] ELSE "high",
      sessionFile |->
          IF c.instagram # NotSet /\ "sessionFile" \in DOMAIN c.instagram[1]
          THEN c.instagram[1].sessionFile
          ELSE ".instagram_session.json" ]

NoDownloader == << >>

InitInstagram ==
    /\ \E c \in IgConfigs :
         ig = [ config |-> c, pc |-> "create", downloader |-> NoDownloader,
                result |-> "none", closeCalls |-> 0, sessionSaves |-> 0,
                legacyCalls |-> 0, outcome |-> "running" ]
    /\ repr = << >>
    /\ AsmIdle
    /\ DashUnused
    /\ ResUnused
    /\ AuxUnused
    /\ cfg = << >>
    /\ idl = << >>
    /\ coll = << >>
    /\ http = << >>
    /\ leg = << >>
    /\ stor = << >>

\* the catch block, lines 841-846, entered: the legacy method is called
IgCatch(s) ==
    [ s EXCEPT !.pc = "legacyInCatch", !.legacyCalls = @ + 1 ]

\* line 816: the factory returns a downloader, logged in or not, or the
\* constructor throws
IgCreate ==
    /\ ig # << >>
    /\ ig.pc = "create"
    /\ \/ \E loggedIn \in BOOLEAN :
            ig' = [ ig EXCEPT
                      !.pc = "download",
                      !.downloader = << [ config |-> downloaderConfig(ig.config),
                                          isLoggedIn |-> loggedIn ] >> ]
       \/ ig' = IgCatch(ig)
    /\ UNCHANGED << asmVars, dashVars, resVars, auxVars,
                    cfg, idl, coll, http, leg, stor >>

\* lines 823-836: downloadFromUrl catches everything and returns a result;
\* on failure the legacy method is called inside the try
IgDownloaded ==
    /\ ig # << >>
    /\ ig.pc = "download"
    /\ \E success \in BOOLEAN :
         IF success
         THEN ig' = [ ig EXCEPT !.pc = "close", !.result = "success" ]
         ELSE ig' = [ ig EXCEPT !.pc = "legacyInTry", !.result = "failure",
                                !.legacyCalls = @ + 1 ]
    /\ UNCHANGED << asmVars, dashVars, resVars, auxVars,
                    cfg, idl, coll, http, leg, stor >>

\* line 835 returns
IgLegacyInTryReturned ==
    /\ ig # << >>
    /\ ig.pc = "legacyInTry"
    /\ ig' = [ ig EXCEPT !.pc = "close" ]
    /\ UNCHANGED << asmVars, dashVars, resVars, auxVars,
                    cfg, idl, coll, http, leg, stor >>

\* line 835 throws (handleInstagramLegacy rethrows, line 940): the catch
\* block of line 841 runs
IgLegacyInTryThrew ==
    /\ ig # << >>
    /\ ig.pc = "legacyInTry"
    /\ ig' = IgCatch(ig)
    /\ UNCHANGED << asmVars, dashVars, resVars, auxVars,
                    cfg, idl, coll, http, leg, stor >>

\* line 839 with close(), instagram-downloader.ts lines 379-384; saveSession
\* catches its own errors
IgClose ==
    /\ ig # << >>
    /\ ig.pc = "close"
    /\ ig' = [ ig EXCEPT
                 !.pc = "done",
                 !.closeCalls = @ + 1,
                 !.sessionSaves = IF ig.downloader[1].isLoggedIn THEN @ + 1
                                  ELSE @,
                 !.outcome = "returned" ]
    /\ UNCHANGED << asmVars, dashVars, resVars, auxVars,
                    cfg, idl, coll, http, leg, stor >>

\* line 846 returns or throws; nothing catches the throw
IgLegacyInCatchEnded ==
    /\ ig # << >>
    /\ ig.pc = "legacyInCatch"
    /\ \E how \in { "returned", "threw" } :
         ig' = [ ig EXCEPT !.pc = "done", !.outcome = how ]
    /\ UNCHANGED << asmVars, dashVars, resVars, auxVars,
                    cfg, idl, coll, http, leg, stor >>

NextInstagram ==
    \/ IgCreate
    \/ IgDownloaded
    \/ IgLegacyInTryReturned
    \/ IgLegacyInTryThrew
    \/ IgClose
    \/ IgLegacyInCatchEnded

SpecInstagram == InitInstagram /\ [][NextInstagram]_vars

\* C22: when handleInstagram has created a downloader and has finished, by
\* returning or by throwing, close() has been called on the downloader.
C22_DownloaderClosed ==
    (ig # << >> /\ ig.pc = "done" /\ ig.downloader # NoDownloader) =>
        ig.closeCalls >= 1

\* C27: the legacy fallback is invoked at most once in a call of
\* handleInstagram.
C27_LegacyAtMostOnce ==
    ig # << >> => ig.legacyCalls <= 1

(***************************************************************************)
(* InstagramDownloader.downloadFromUrl, instagram-downloader.ts 216-315    *)
(***************************************************************************)
\* largest number of children of a carousel post
MaxKids == 2

\* the empty string a missing URL turns into (lines 293, 304, 360)
EmptyUrl == [ of |-> 0, kind |-> "empty" ]

\* the image or video URL of a node; of = 0 is the post itself, of = i its
\* i-th child
UrlOf(i, kind) == [ of |-> i, kind |-> kind ]

\* child nodes: __typename, is_video, and whether the URL fields are there
ChildNodes ==
    { n \in [ typename : { "GraphImage", "GraphVideo" }, is_video : BOOLEAN,
              hasImage : BOOLEAN, hasVideoUrl : BOOLEAN ] :
        /\ n.is_video = (n.typename = "GraphVideo")
        /\ n.hasImage = ~n.is_video
        /\ n.is_video => n.hasVideoUrl }

\* the media data of a post
MediaDatas ==
    { m \in [ typename : { "GraphImage", "GraphVideo", "GraphSidecar" },
              is_video : BOOLEAN, hasImage : BOOLEAN, hasVideoUrl : BOOLEAN,
              children : SeqsUpTo(ChildNodes, MaxKids) ] :
        /\ m.typename # "GraphSidecar" => m.children = << >>
        /\ m.typename = "GraphSidecar" => (~m.is_video /\ ~m.hasVideoUrl)
        /\ m.typename = "GraphImage" => (~m.is_video /\ ~m.hasVideoUrl)
        /\ m.typename = "GraphVideo" => m.is_video }

\* lines 347-361
getBestWebImageUrl(media, i) ==
    IF media.hasImage THEN UrlOf(i, "image") ELSE EmptyUrl

\* media.video_url || ''
videoUrlOr(media, i) ==
    IF media.hasVideoUrl THEN UrlOf(i, "video") ELSE EmptyUrl

RECURSIVE childUrls(_, _)
\* the loop of lines 298-306 from child i on
childUrls(children, i) ==
    IF i > Len(children) THEN << >>
    ELSE LET child == children[i]
             own == IF child.typename = "GraphImage" \/ ~child.is_video
                    THEN << getBestWebImageUrl(child, i) >>
                    ELSE IF child.typename = "GraphVideo" \/ child.is_video
                    THEN << videoUrlOr(child, i) >>
                    ELSE << >>
         IN  own \o childUrls(children, i + 1)

\* lines 287-307: the URLs to download.  The tests are tried in the order
\* of the source: single photo, single video, carousel.
extractUrls(m) ==
    IF m.typename = "GraphImage" \/ ~m.is_video
    THEN << getBestWebImageUrl(m, 0) >>
    ELSE IF m.typename = "GraphVideo" \/ m.is_video
    THEN << videoUrlOr(m, 0) >>
    ELSE IF m.typename = "GraphSidecar" \/ Len(m.children) > 0
    THEN childUrls(m.children, 1)
    ELSE << >>

InitIgDownload ==
    /\ \E m \in MediaDatas :
         idl = [ media |-> m, pc |-> "getMediaInfo", urls |-> << >>,
                 downloaded |-> << >>, envFailed |-> FALSE,
                 result |-> [ success |-> FALSE, media |-> 0 ] ]
    /\ repr = << >>
    /\ AsmIdle
    /\ DashUnused
    /\ ResUnused
    /\ AuxUnused
    /\ cfg = << >>
    /\ ig = << >>
    /\ coll = << >>
    /\ http = << >>
    /\ leg = << >>
    /\ stor = << >>

\* downloadFromUrl ends: lines 248, 220 and 251
IdlEnd(s, ok) ==
    [ s EXCEPT !.pc = "done",
               !.result = IF ok THEN [ success |-> TRUE,
                                       media |-> Len(s.downloaded) ]
                          ELSE [ success |-> FALSE, media |-> 0 ] ]

\* lines 218-230 with getMediaInfo (258-315): the post data is fetched, or
\* the fetch fails and getMediaInfo returns null
IdlMediaInfo ==
    /\ idl # << >>
    /\ idl.pc = "getMediaInfo"
    /\ \E fetched \in BOOLEAN :
         IF ~fetched
         THEN idl' = IdlEnd([ idl EXCEPT !.envFailed = TRUE ], FALSE)
         ELSE LET s == [ idl EXCEPT !.urls = extractUrls(idl.media) ]
              IN  idl' = IF s.urls = << >> THEN IdlEnd(s, TRUE)
                         ELSE [ s EXCEPT !.pc = "downloadFile" ]
    /\ UNCHANGED << asmVars, dashVars, resVars, auxVars,
                    cfg, ig, coll, http, leg, stor >>

\* lines 233-245 with downloadFile (366-374): one pass of the loop.  An
\* empty URL makes nodeFetch throw; a failed download is caught at line 250.
IdlDownloadFile ==
    /\ idl # << >>
    /\ idl.pc = "downloadFile"
    /\ LET url == idl.urls[Len(idl.downloaded) + 1]
       IN  \E fetched \in BOOLEAN :
             IF url = EmptyUrl
             THEN idl' = IdlEnd(idl, FALSE)
             ELSE IF ~fetched
             THEN idl' = IdlEnd([ idl EXCEPT !.envFailed = TRUE ], FALSE)
             ELSE LET s == [ idl EXCEPT !.downloaded = Append(@, url) ]
                  IN  idl' = IF Len(s.downloaded) = Len(s.urls)
                             THEN IdlEnd(s, TRUE) ELSE s
    /\ UNCHANGED << asmVars, dashVars, resVars, auxVars,
                    cfg, ig, coll, http, leg, stor >>

NextIgDownload ==
    \/ IdlMediaInfo
    \/ IdlDownloadFile

SpecIgDownload == InitIgDownload /\ [][NextIgDownload]_vars

\* the post is a carousel with at least one child
IsCarouselPost(m) == m.typename = "GraphSidecar" /\ Len(m.children) > 0

\* child i's own URL: its image when it is an image, its video_url when it
\* is a video
OwnUrl(child, i) ==
    IF child.is_video THEN UrlOf(i, "video") ELSE UrlOf(i, "image")

\* C23: for a carousel post with N children, when no request fails,
\* downloadFromUrl downloads one media file per child, the i-th from the
\* i-th child's own URL, and reports success with those N media files.
C23_CarouselOnePerChild ==
    (idl # << >> /\ idl.pc = "done" /\ IsCarouselPost(idl.media)
        /\ ~idl.envFailed) =>
        /\ idl.result.success
        /\ idl.result.media = Len(idl.media.children)
        /\ idl.downloaded =
              [ i \in 1..Len(idl.media.children) |->
                  OwnUrl(idl.media.children[i], i) ]

(***************************************************************************)
(* BaseDownloader.downloadCollection, BaseDownloader.ts lines 92-205       *)
(***************************************************************************)
\* largest number of items in a collection
MaxItems == 4

\* options.concurrent: absent, or a number
ConcurrentOptions == { << >>, << 0 >>, << 1 >>, << 2 >>, << 3 >> }

\* options.filenamePattern: absent, or a pattern holding {index}
FilenamePatterns == { "none", "{id}_{index}{ext}" }

\* line 99: options?.concurrent || 3
concurrentOf(opt) == IF opt = << >> \/ opt[1] = 0 THEN 3 ELSE opt[1]

\* items.slice(i, i + concurrent), as the positions it holds
batchSlice(n, i, concurrent) ==
    LET last == IF i + concurrent < n THEN i + concurrent ELSE n
    IN  [ k \in 1..(last - i) |-> i + k ]

\* a plausible slip: the index within the batch is passed on
itemIndex_InBatch(i, index) == index + 1

\* line 112: the index handed to downloadSingleSafe; index is the 0-based
\* position in the batch
itemIndex(i, index) == i + index + 1

\* lines 196-204 and 221: the numeric part of the filename
generateFilename(item, index, pattern) ==
    IF pattern # "none"
    THEN [ id |-> item, number |-> << index >> ]
    ELSE [ id |-> item, number |-> IF index # 0 THEN << index >> ELSE << >> ]

InitCollection ==
    /\ \E n \in 1..MaxItems, c \in ConcurrentOptions, p \in FilenamePatterns :
         coll = [ n |-> n, concurrent |-> c, pattern |-> p, i |-> 0,
                  pending |-> {}, names |-> << >>, completed |-> << >>,
                  files |-> << >>, errors |-> << >>, pc |-> "loop" ]
    /\ repr = << >>
    /\ AsmIdle
    /\ DashUnused
    /\ ResUnused
    /\ AuxUnused
    /\ cfg = << >>
    /\ ig = << >>
    /\ idl = << >>
    /\ http = << >>
    /\ leg = << >>
    /\ stor = << >>

\* lines 103-114: the next batch is started; every downloadSingleSafe of it
\* runs up to its first await, the filename already generated (line 157)
CollStartBatch ==
    /\ coll # << >>
    /\ coll.pc = "loop"
    /\ coll.i < coll.n
    /\ LET batch == batchSlice(coll.n, coll.i, concurrentOf(coll.concurrent))
           named == [ k \in 1..Len(batch) |->
                        generateFilename(batch[k], itemIndex(coll.i, k - 1),
                                         coll.pattern) ]
       IN  coll' = [ coll EXCEPT
                       !.pending = { batch[k] : k \in 1..Len(batch) },
                       !.names = @ \o named,
                       !.pc = "awaitAll" ]
    /\ UNCHANGED << asmVars, dashVars, resVars, auxVars,
                    cfg, ig, idl, http, leg, stor >>

\* lines 130-142 and 161-176: one download of the batch ends, in any
\* order: file pushed, or error pushed
CollItemDone ==
    /\ coll # << >>
    /\ coll.pc = "awaitAll"
    /\ \E item \in coll.pending, ok \in BOOLEAN :
         coll' = [ coll EXCEPT
                     !.pending = @ \ { item },
                     !.completed = Append(@, item),
                     !.files = IF ok THEN Append(@, item) ELSE @,
                     !.errors = IF ok THEN @ ELSE Append(@, item) ]
    /\ UNCHANGED << asmVars, dashVars, resVars, auxVars,
                    cfg, ig, idl, http, leg, stor >>

\* lines 115 and 103: Promise.all resolves, i += concurrent
CollBatchJoined ==
    /\ coll # << >>
    /\ coll.pc = "awaitAll"
    /\ coll.pending = {}
    /\ LET next == coll.i + concurrentOf(coll.concurrent)
       IN  coll' = [ coll EXCEPT !.i = next,
                                 !.pc = IF next < coll.n THEN "loop" ELSE "done" ]
    /\ UNCHANGED << asmVars, dashVars, resVars, auxVars,
                    cfg, ig, idl, http, leg, stor >>

NextCollection ==
    \/ CollStartBatch
    \/ CollItemDone
    \/ CollBatchJoined

SpecCollection == InitCollection /\ [][NextCollection]_vars

\* C24: the number in the filename of every item named so far is the
\* item's 1-based position in the collection, whatever the batch size and
\* the order in which the downloads complete.
C24_SuffixIsPosition ==
    coll # << >> =>
        \A k \in 1..Len(coll.names) :
            coll.names[k].number = << coll.names[k].id >>

\* four items in batches of two, all done, the second batch completed in
\* reverse order
C24_Witness ==
    /\ coll # << >>
    /\ coll.pc = "done"
    /\ coll.n = 4
    /\ concurrentOf(coll.concurrent) = 2
    /\ coll.completed = << 2, 1, 4, 3 >>
    /\ Len(coll.names) = 4

(***************************************************************************)
(* HttpClient.request and executeWithRetry, HttpClient.ts lines 82-187     *)
(***************************************************************************)
\* largest retry count of a request
MaxRetries == 2

\* the configuration, lines 37-46, in time units
RetryDelays == { 1, 5 }
MaxRetryDelays == { 4 }
BackoffFactors == { 1, 2 }

\* what a request that was sent may come back with: a response that is
\* returned, a response shouldRetryResponse is true for (lines 189-197), or
\* a rejection of nodeFetch
FetchOutcomes == { "response", "retryable", "rejected" }

MinOf(a, b) == IF a < b THEN a ELSE b

\* lines 175-178
nextDelay(delay, c) == MinOf(delay * c.backoffFactor, c.maxRetryDelay)

InitHttp ==
    /\ \E r \in 0..MaxRetries, rd \in RetryDelays, mx \in MaxRetryDelays,
          bf \in BackoffFactors :
         http = [ config |-> [ retryDelay |-> rd, maxRetryDelay |-> mx,
                               backoffFactor |-> bf ],
                  retries |-> r, pc |-> "start", attempt |-> 0, delay |-> rd,
                  calls |-> 0, waits |-> << >>, aborted |-> FALSE,
                  callsAfterAbort |-> 0, responded |-> FALSE,
                  outcome |-> "none" ]
    /\ repr = << >>
    /\ AsmIdle
    /\ DashUnused
    /\ ResUnused
    /\ AuxUnused
    /\ cfg = << >>
    /\ ig = << >>
    /\ idl = << >>
    /\ coll = << >>
    /\ leg = << >>
    /\ stor = << >>

\* a call of nodeFetch, line 146
HttpCallFetch(s) ==
    [ s EXCEPT !.pc = "fetch", !.calls = @ + 1,
               !.callsAfterAbort = IF s.aborted THEN @ + 1 ELSE @ ]

\* the catch block of lines 160-180 and what follows it: sleep before the
\* next attempt, or leave the loop and throw REQUEST_FAILED (line 183),
\* which request rethrows as it is (line 128)
HttpCaught(s) ==
    IF s.attempt < s.retries
    THEN [ s EXCEPT !.pc = "sleep", !.waits = Append(@, s.delay) ]
    ELSE [ s EXCEPT !.pc = "done", !.outcome = "REQUEST_FAILED" ]

\* lines 87-106 and 139-146: the timer is set and the first attempt made
HttpStart ==
    /\ http # << >>
    /\ http.pc = "start"
    /\ http' = HttpCallFetch(http)
    /\ UNCHANGED << asmVars, dashVars, resVars, auxVars,
                    cfg, ig, idl, coll, leg, stor >>

\* line 103: the timer fires before clearTimeout and aborts the signal
HttpTimerFires ==
    /\ http # << >>
    /\ http.pc \in { "fetch", "sleep" }
    /\ ~http.aborted
    /\ http' = [ http EXCEPT !.aborted = TRUE ]
    /\ UNCHANGED << asmVars, dashVars, resVars, auxVars,
                    cfg, ig, idl, coll, leg, stor >>

\* lines 146-158 and 114-116: the request comes back before any abort
HttpFetchEnded ==
    /\ http # << >>
    /\ http.pc = "fetch"
    /\ ~http.aborted
    /\ \E out \in FetchOutcomes :
         IF out = "response" \/ (out = "retryable" /\ http.attempt >= http.retries)
         THEN http' = [ http EXCEPT
                          !.pc = "done", !.responded = TRUE,
                          !.outcome = IF out = "response" THEN "returned"
                                      ELSE "HTTP_ERROR" ]
         ELSE http' = HttpCaught(http)
    /\ UNCHANGED << asmVars, dashVars, resVars, auxVars,
                    cfg, ig, idl, coll, leg, stor >>

\* line 146 with an aborted signal: nodeFetch rejects with an AbortError,
\* which the catch of line 160 takes like any other error
HttpFetchAborted ==
    /\ http # << >>
    /\ http.pc = "fetch"
    /\ http.aborted
    /\ http' = HttpCaught(http)
    /\ UNCHANGED << asmVars, dashVars, resVars, auxVars,
                    cfg, ig, idl, coll, leg, stor >>

\* lines 172-178 and 142-146: the sleep ends, the delay grows, the next
\* attempt is made
HttpSleepDone ==
    /\ http # << >>
    /\ http.pc = "sleep"
    /\ http' = HttpCallFetch([ http EXCEPT
                                 !.attempt = @ + 1,
                                 !.delay = nextDelay(http.delay, http.config) ])
    /\ UNCHANGED << asmVars, dashVars, resVars, auxVars,
                    cfg, ig, idl, coll, leg, stor >>

NextHttp ==
    \/ HttpStart
    \/ HttpTimerFires
    \/ HttpFetchEnded
    \/ HttpFetchAborted
    \/ HttpSleepDone

SpecHttp == InitHttp /\ [][NextHttp]_vars

RECURSIVE Power(_, _)
Power(b, e) == IF e = 0 THEN 1 ELSE b * Power(b, e - 1)

\* C25: a request with retry count R calls nodeFetch at most R + 1 times,
\* and the wait before the k-th retry is
\* min(retryDelay * backoffFactor^(k-1), maxRetryDelay): the waits never
\* decrease and never exceed maxRetryDelay.
C25_BackoffWaits ==
    http # << >> =>
        /\ http.calls <= http.retries + 1
        /\ Len(http.waits) <= http.retries
        /\ \A k \in 1..Len(http.waits) :
              /\ http.waits[k] =
                    MinOf(http.config.retryDelay
                              * Power(http.config.backoffFactor, k - 1),
                          http.config.maxRetryDelay)
              /\ http.waits[k] <= http.config.maxRetryDelay
              /\ k > 1 => http.waits[k - 1] <= http.waits[k]

\* C26: when the timer has fired before a response was returned, nodeFetch
\* is not called again and the request fails with REQUEST_TIMEOUT.
C26_TimeoutStopsRequest ==
    (http # << >> /\ http.aborted /\ ~http.responded) =>
        /\ http.callsAfterAbort = 0
        /\ http.pc = "done" => http.outcome = "REQUEST_TIMEOUT"

(***************************************************************************)
(* handleInstagramLegacy, get.ts lines 851-942                             *)
(***************************************************************************)
\* largest number of items captured from the GraphQL responses of a page
MaxCaptured == 3

\* the items a response may carry: leaves, and carousels of image leaves
CapturedItems ==
    { it \in LeafItems : it.dash = "absent" }
        \cup { Carousel(PlainOwn, kids) :
                 kids \in SeqsUpTo({ ImageLeaf }, MaxChildren) }

\* line 934: postName + (i > 0 ? `_${i}` : ''), i the 0-based index
localName(postName, i) ==
    IF i > 0 THEN postName \o << "_" >> \o DecString(i) ELSE postName

RECURSIVE leafPaths(_, _)
\* the output files extractMediaRecursive(item, folderName, name) names,
\* lines 768-805, as a sequence in the order they are written
leafPaths(item, name) ==
    IF item.edges
    THEN LET RECURSIVE from(_)
             from(i) ==
                 IF i > Len(item.children) THEN << >>
                 ELSE leafPaths(item.children[i], childName(name, i - 1))
                          \o from(i + 1)
         IN  from(1)
    ELSE (IF item.is_video /\ (item.dash # "absent" \/ item.video_url)
          THEN << OutFile(name, "mp4") >> ELSE << >>)
         \o (IF Len(item.display_resources) > 0
             THEN << OutFile(name, "jpg") >> ELSE << >>)

InitLegacy ==
    /\ leg = [ pc |-> "capture", items |-> << >>, i |-> 0, written |-> << >> ]
    /\ repr = << >>
    /\ AsmIdle
    /\ DashUnused
    /\ ResUnused
    /\ AuxUnused
    /\ cfg = << >>
    /\ ig = << >>
    /\ idl = << >>
    /\ coll = << >>
    /\ http = << >>
    /\ stor = << >>

\* lines 869-912: a GraphQL response with a usable item arrives while the
\* page loads; the item is pushed
LegCapture ==
    /\ leg # << >>
    /\ leg.pc = "capture"
    /\ Len(leg.items) < MaxCaptured
    /\ \E item \in CapturedItems :
         leg' = [ leg EXCEPT !.items = Append(@, item) ]
    /\ UNCHANGED << asmVars, dashVars, resVars, auxVars,
                    cfg, ig, idl, coll, http, stor >>

\* lines 914-930: the page is loaded and closed; with no item the function
\* returns
LegPageClosed ==
    /\ leg # << >>
    /\ leg.pc = "capture"
    /\ leg' = [ leg EXCEPT !.pc = IF Len(leg.items) = 0 THEN "done" ELSE "loop" ]
    /\ UNCHANGED << asmVars, dashVars, resVars, auxVars,
                    cfg, ig, idl, coll, http, stor >>

\* lines 932-937: one pass of the loop, the files of item i written under
\* the names extractMediaRecursive gives them
LegExtract ==
    /\ leg # << >>
    /\ leg.pc = "loop"
    /\ LET item == leg.items[leg.i + 1]
           name == localName(BaseName, leg.i)
       IN  leg' = [ leg EXCEPT
                      !.written = @ \o leafPaths(item, name),
                      !.i = @ + 1,
                      !.pc = IF leg.i + 1 < Len(leg.items) THEN "loop"
                             ELSE "done" ]
    /\ UNCHANGED << asmVars, dashVars, resVars, auxVars,
                    cfg, ig, idl, coll, http, stor >>

NextLegacy ==
    \/ LegCapture
    \/ LegPageClosed
    \/ LegExtract

SpecLegacy == InitLegacy /\ [][NextLegacy]_vars

\* C28: within one invocation no two leaves are written to the same output
\* path.
C28_OutputPathsDistinct ==
    leg # << >> =>
        \A a, b \in 1..Len(leg.written) :
            a # b => leg.written[a] # leg.written[b]

(***************************************************************************)
(* The two tracks of downloadBestQualityDash, get.ts lines 476-503         *)
(***************************************************************************)
\* lines 478-485 passed: both selectors returned a set, so the function
\* goes on to pick representations and fetch segments
GoesOnToFetch ==
    /\ sel # << >>
    /\ sel.video.kind = "found"
    /\ sel.audio.kind = "found"

\* C29: whenever downloadBestQualityDash goes on to fetch segments, the set
\* selected as the video track and the set selected as the audio track are
\* two different adaptation sets.
C29_TracksDiffer ==
    GoesOnToFetch => sel.video.idx # sel.audio.idx

(***************************************************************************)
(* LocalFileStorage.resolvePath, LocalFileStorage.ts lines 253-265         *)
(***************************************************************************)
\* largest number of segments in a path given to the storage
MaxSegments == 3

\* path segments, each a string
SegParent == << ".", "." >>
SegOut == << "o", "u", "t" >>
SegOut2 == << "o", "u", "t", "2" >>
PathSegments == { << "a" >>, SegParent, SegOut, SegOut2, << "w" >> }

\* this.baseDir after path.resolve (line 30): /w/out
BaseDirSegments == << << "w" >>, SegOut >>

\* the paths a caller may give: relative or absolute, a few segments long
FilePaths ==
    [ absolute : BOOLEAN, segments : SeqsUpTo(PathSegments, MaxSegments) ]

RECURSIVE normalize(_, _)
\* the segments left after ".." has taken its parent away, acc holding the
\* ones settled so far; above the root ".." stays at the root
normalize(acc, rest) ==
    IF rest = << >> THEN acc
    ELSE IF rest[1] = SegParent
    THEN normalize(IF acc = << >> THEN acc ELSE SubSeq(acc, 1, Len(acc) - 1),
                   Tail(rest))
    ELSE normalize(Append(acc, rest[1]), Tail(rest))

\* path.resolve(this.baseDir, filePath), line 255, as segments
pathResolve(base, filePath) ==
    IF filePath.absolute THEN normalize(<< >>, filePath.segments)
    ELSE normalize(base, filePath.segments)

RECURSIVE pathString(_)
\* an absolute path as the string path.resolve returns: /seg/seg...
pathString(segs) ==
    IF segs = << >> THEN << >>
    ELSE << "/" >> \o segs[1] \o pathString(Tail(segs))

\* String.prototype.startsWith
startsWith(str, prefix) ==
    /\ Len(str) >= Len(prefix)
    /\ SubSeq(str, 1, Len(prefix)) = prefix

InitStorage ==
    /\ stor \in [ filePath : FilePaths, pc : { "call" }, resolved : { << >> },
                  outcome : { "none" } ]
    /\ repr = << >>
    /\ AsmIdle
    /\ DashUnused
    /\ ResUnused
    /\ AuxUnused
    /\ cfg = << >>
    /\ ig = << >>
    /\ idl = << >>
    /\ coll = << >>
    /\ http = << >>
    /\ leg = << >>

\* lines 253-265
StorResolvePath ==
    /\ stor # << >>
    /\ stor.pc = "call"
    /\ LET resolved == pathResolve(BaseDirSegments, stor.filePath)
       IN  IF ~startsWith(pathString(resolved), pathString(BaseDirSegments))
           THEN stor' = [ stor EXCEPT !.pc = "done", !.outcome = "INVALID_PATH" ]
           ELSE stor' = [ stor EXCEPT !.pc = "done", !.outcome = "returned",
                                      !.resolved = resolved ]
    /\ UNCHANGED << asmVars, dashVars, resVars, auxVars,
                    cfg, ig, idl, coll, http, leg >>

NextStorage == StorResolvePath

SpecStorage == InitStorage /\ [][NextStorage]_vars

\* the location is the base directory or lies below it
InsideBase(segs) ==
    /\ Len(segs) >= Len(BaseDirSegments)
    /\ SubSeq(segs, 1, Len(BaseDirSegments)) = BaseDirSegments

\* C30: every path resolvePath returns lies inside the base directory; for
\* an input that resolves outside it, a sibling directory whose name starts
\* with the base directory's name included, resolvePath throws INVALID_PATH.
C30_PathsStayInsideBase ==
    (stor # << >> /\ stor.pc = "done") =>
        /\ stor.outcome = "returned" => InsideBase(stor.resolved)
        /\ ~InsideBase(pathResolve(BaseDirSegments, stor.filePath))
              => stor.outcome = "INVALID_PATH"

====
